---- MODULE Spec2Model ----
(***************************************************************************)
(* Model of the fplguru results page (static/js/analyze.js): the           *)
(* DOMContentLoaded handler that reads the staged payload, sends one       *)
(* classification request per entry of the weather and notams catalogs and *)
(* writes each part's panel and badge.                                     *)
(*                                                                         *)
(* JavaScript strings are sequences of one-character strings, so that      *)
(* toLowerCase, replace, concatenation and escapeHtml are computed and not *)
(* assumed.  Other JavaScript values are tagged records (field t).         *)
(***************************************************************************)
EXTENDS Integers, Sequences, FiniteSets, TLC

VARIABLES
    storage,     \* sessionStorage.getItem('fplguru_payload')
    pc,          \* position of the DOMContentLoaded handler
    flightplan,  \* the handler's const flightplan
    idx,         \* index of the catalog entry the current loop is at
    inflight,    \* <<t>> while the request of task t awaits its response
    requests,    \* every request body POSTed to /api/analyze_section/, in order
    responses,   \* every network outcome a request met, with its task, in order
    ret,         \* per task: <<v>> once callSectionAnalysis has resolved with v
    panel,       \* panel element id -> innerHTML
    badge,       \* badge element id -> className
    border,      \* panel element id -> risk classes of its .panel-risk-border
    weightsText, \* textContent of #weightsResult
    hidden,      \* whether the obsolete accordion items have been hidden
    rejection,   \* <<e>> once the handler's promise is rejected with error e
    sevIn,       \* argument of the severityValue call under study
    sevOut,      \* <<n>> once it has returned n
    variant,     \* which of the file's two entry scripts the entry page runs
    location,    \* the page the browser shows: "entry", "result", "submit_analysis"
    tgLoggedIn,  \* document.body.dataset.tgLoggedIn, "unset" before it is written
    tgStatus,    \* textContent of #tgStatus
    tgRemaining, \* textContent of #tgRemaining
    files,       \* fileInput.files.length of #pdfFile
    disabled,    \* analyzeBtn.disabled
    payloadText, \* value of the #payload textarea
    rawText,     \* value of the #rawText textarea
    result,      \* textContent of #result
    parsing,     \* parse requests awaiting their reply
    timers,      \* redirects scheduled by setTimeout and not yet due
    goBtn,       \* whether #goToAnalysisBtn has been added to the page
    posted,      \* payload fields of the fallback forms submitted, in order
    last         \* the entry-page step taken last, with the reply it handled

entryVars == <<variant, location, tgLoggedIn, tgStatus, tgRemaining, files, disabled,
               payloadText, rawText, result, parsing, timers, goBtn,
               posted, last>>

vars == <<storage, pc, flightplan, idx, inflight, requests, responses, ret, panel,
          badge, border, weightsText, hidden, rejection, sevIn, sevOut, entryVars>>

runVars == <<storage, pc, flightplan, idx, inflight, requests, responses, ret, panel,
             badge, border, weightsText, hidden, rejection>>

(***************************************************************************)
(* JavaScript values                                                       *)
(***************************************************************************)
Undefined == [t |-> "undefined"]
Null == [t |-> "null"]
Str(s) == [t |-> "string", s |-> s]
Num(n) == [t |-> "number", n |-> n]
Bool(b) == [t |-> "boolean", b |-> b]
\* An object keeps its own properties in insertion order.
Obj(keys, vals) == [t |-> "object", keys |-> keys, vals |-> vals]
Arr(items) == [t |-> "array", items |-> items]
EmptyObj == Obj(<<>>, <<>>)

\* ToBoolean, as used by !x, x && y, x || y and x ? y : z.
Truthy(v) ==
    CASE v.t = "undefined" -> FALSE
      [] v.t = "null" -> FALSE
      [] v.t = "string" -> v.s # <<>>
      [] v.t = "number" -> v.n # 0
      [] v.t = "boolean" -> v.b
      [] OTHER -> TRUE

\* v[k] for a property name k that is none of the built-in ones.
Get(v, k) ==
    IF v.t = "object" /\ \E i \in 1..Len(v.keys) : v.keys[i] = k
    THEN v.vals[CHOOSE i \in 1..Len(v.keys) : v.keys[i] = k]
    ELSE Undefined

\* a || b
OrElse(a, b) == IF Truthy(a) THEN a ELSE b

RECURSIVE Digits(_)
\* String(n) for an integer n >= 0.
Digits(n) ==
    LET d == <<"0", "1", "2", "3", "4", "5", "6", "7", "8", "9">>
    IN  IF n < 10 THEN <<d[n + 1]>> ELSE Digits(n \div 10) \o <<d[(n % 10) + 1]>>

RECURSIVE Join(_)
\* Array.prototype.join(',') over already converted elements.
Join(ss) ==
    IF ss = <<>> THEN <<>>
    ELSE IF Len(ss) = 1 THEN ss[1]
    ELSE ss[1] \o <<",">> \o Join(Tail(ss))

RECURSIVE JsString(_)
\* String(v)
JsString(v) ==
    CASE v.t = "string" -> v.s
      [] v.t = "number" -> Digits(v.n)
      [] v.t = "boolean" ->
            IF v.b THEN <<"t", "r", "u", "e">> ELSE <<"f", "a", "l", "s", "e">>
      [] v.t = "null" -> <<"n", "u", "l", "l">>
      [] v.t = "undefined" -> <<"u", "n", "d", "e", "f", "i", "n", "e", "d">>
      [] v.t = "array" ->
            Join([i \in 1..Len(v.items) |->
                    IF v.items[i].t \in {"null", "undefined"} THEN <<>>
                    ELSE JsString(v.items[i])])
      [] OTHER -> <<"[", "o", "b", "j", "e", "c", "t", " ",
                    "O", "b", "j", "e", "c", "t", "]">>

\* One character of String.prototype.toLowerCase.
LowerChar(c) ==
    LET up == <<"A", "B", "C", "D", "E", "F", "G", "H", "I", "J", "K", "L", "M",
                "N", "O", "P", "Q", "R", "S", "T", "U", "V", "W", "X", "Y", "Z">>
        lo == <<"a", "b", "c", "d", "e", "f", "g", "h", "i", "j", "k", "l", "m",
                "n", "o", "p", "q", "r", "s", "t", "u", "v", "w", "x", "y", "z">>
    IN  IF \E i \in 1..26 : up[i] = c
        THEN lo[CHOOSE i \in 1..26 : up[i] = c]
        ELSE c

toLowerCase(s) == [i \in 1..Len(s) |-> LowerChar(s[i])]

\* First index at which pat occurs in s, 0 when it does not.
IndexOf(s, pat) ==
    LET hits == {i \in 1..(Len(s) - Len(pat) + 1) :
                    SubSeq(s, i, i + Len(pat) - 1) = pat}
    IN  IF hits = {} THEN 0 ELSE CHOOSE i \in hits : \A j \in hits : i <= j

\* String.prototype.replace with a string pattern: the first occurrence only.
replace(s, pat, rep) ==
    LET i == IndexOf(s, pat)
    IN  IF i = 0 THEN s
        ELSE SubSeq(s, 1, i - 1) \o rep \o SubSeq(s, i + Len(pat), Len(s))

EscapeChar(c) ==
    CASE c = "&" -> <<"&", "a", "m", "p", ";">>
      [] c = "<" -> <<"&", "l", "t", ";">>
      [] c = ">" -> <<"&", "g", "t", ";">>
      [] c = "\"" -> <<"&", "q", "u", "o", "t", ";">>
      [] c = "'" -> <<"&", "#", "3", "9", ";">>
      [] OTHER -> <<c>>

RECURSIVE EscapeSeq(_)
EscapeSeq(s) == IF s = <<>> THEN <<>> ELSE EscapeChar(Head(s)) \o EscapeSeq(Tail(s))

\* escapeHtml(str): '' for null and undefined, else String(str) with & < > " '
\* replaced by their entities.
escapeHtml(v) ==
    IF v.t \in {"null", "undefined"} THEN <<>> ELSE EscapeSeq(JsString(v))

(***************************************************************************)
(* Property names and string literals of the source.  An element of more   *)
(* than one character stands for literal text that holds no character      *)
(* escapeHtml replaces and that is never lower-cased or searched.          *)
(***************************************************************************)
sError == <<"e", "r", "r", "o", "r">>
sByPart == <<"b", "y", "_", "p", "a", "r", "t">>
sRiskLevel == <<"r", "i", "s", "k", "_", "l", "e", "v", "e", "l">>
sDetails == <<"d", "e", "t", "a", "i", "l", "s">>
sFlags == <<"f", "l", "a", "g", "s">>
sRawText ==
    <<"r", "a", "w", "_", "l", "l", "m", "_", "r", "e", "s", "p", "o", "n",
      "s", "e", "_", "t", "e", "x", "t">>
sFlightplan == <<"f", "l", "i", "g", "h", "t", "p", "l", "a", "n">>
sAnalyzePart ==
    <<"a", "n", "a", "l", "y", "z", "e", "_", "p", "a", "r", "t">>
sFocus == <<"f", "o", "c", "u", "s">>
sSection == <<"s", "e", "c", "t", "i", "o", "n">>
sData == <<"d", "a", "t", "a">>
sWeather == <<"w", "e", "a", "t", "h", "e", "r">>
sNotams == <<"n", "o", "t", "a", "m", "s">>
sDeparture == <<"d", "e", "p", "a", "r", "t", "u", "r", "e">>
sDestination == <<"d", "e", "s", "t", "i", "n", "a", "t", "i", "o", "n">>
sDestinationAlternate ==
    <<"d", "e", "s", "t", "i", "n", "a", "t", "i", "o", "n", "_", "a", "l",
      "t", "e", "r", "n", "a", "t", "e">>
sEnrouteAlternates ==
    <<"e", "n", "r", "o", "u", "t", "e", "_", "a", "l", "t", "e", "r", "n",
      "a", "t", "e", "s">>
sCompany == <<"c", "o", "m", "p", "a", "n", "y">>
sArea == <<"a", "r", "e", "a">>
sAlternates == <<"_", "a", "l", "t", "e", "r", "n", "a", "t", "e", "s">>
sUnknown == <<"u", "n", "k", "n", "o", "w", "n">>
sLow == <<"l", "o", "w">>
sModerate == <<"m", "o", "d", "e", "r", "a", "t", "e">>
sMedium == <<"m", "e", "d", "i", "u", "m">>
sAmber == <<"a", "m", "b", "e", "r">>
sHigh == <<"h", "i", "g", "h">>
sRed == <<"r", "e", "d">>
sHttp == <<"HTTP ">>
sRiskBadge == <<"risk-badge ">>
sRiskClass == <<"risk-">>
sNoPayload == <<"No payload found. Please go back and provide a payload.">>

(***************************************************************************)
(* The catalogs                                                            *)
(***************************************************************************)
weatherParts ==
    << [part |-> sDeparture,
        title |-> <<"Departure Weather">>,
        focus |-> <<"Analyze winds, visibility, QNH, cloud tops and convective risk for the departure airport and identify operational risks.">>],
       [part |-> sDestination,
        title |-> <<"Destination Weather">>,
        focus |-> <<"Analyze winds, visibility, QNH, cloud tops and convective risk for the destination airport and identify operational risks.">>],
       [part |-> sDestinationAlternate,
        title |-> <<"Destination Alternate Weather">>,
        focus |-> <<"Analyze the destination alternate weather and any risks that would affect diversion.">>],
       [part |-> sEnrouteAlternates,
        title |-> <<"Enroute Alternates / Enroute Weather">>,
        focus |-> <<"Assess enroute weather risks including icing, turbulence, convective activity, low clouds, and wind shear for enroute alternates and enroute waypoints.">>] >>

notamParts ==
    << [part |-> sDeparture,
        title |-> <<"Departure NOTAMs">>,
        focus |-> <<"Emphasize runway closures, navaid degradation, runway shortening and any NOTAM that impacts takeoff.">>],
       [part |-> sDestination,
        title |-> <<"Destination NOTAMs">>,
        focus |-> <<"Emphasize runway closures, navaid degradation, runway shortening and any NOTAM that impacts landing.">>],
       [part |-> sEnrouteAlternates,
        title |-> <<"Enroute NOTAMs">>,
        focus |-> <<"Emphasize navaid degradation, runway closures at alternates and enroute aerodromes, and any hazards affecting diversion.">>],
       [part |-> sCompany,
        title |-> <<"Company NOTAMs">>,
        focus |-> <<"Highlight company-level operational NOTAMs or company procedures that affect this flight.">>],
       [part |-> sArea,
        title |-> <<"Area NOTAMs">>,
        focus |-> <<"Emphasize airspace closures, GPS/jamming, and other area-level risks.">>] >>

\* A task is a loop and an index into that loop's catalog.
Task(loop, i) == <<loop, i>>
Tasks ==
    {Task("weather", i) : i \in 1..Len(weatherParts)}
        \cup {Task("notams", i) : i \in 1..Len(notamParts)}
Entry(t) == IF t[1] = "weather" THEN weatherParts[t[2]] ELSE notamParts[t[2]]
SectionOf(t) == IF t[1] = "weather" THEN sWeather ELSE sNotams

\* The panel id with the suffix '_alternates' cut from the part.
panelIdStripped(t) ==
    (IF t[1] = "weather" THEN <<"panel-weather-">> ELSE <<"panel-notams-">>)
        \o replace(Entry(t).part, sAlternates, <<>>)

\* 'panel-weather-' + wp.part, 'panel-notams-' + np.part
panelId(t) ==
    (IF t[1] = "weather" THEN <<"panel-weather-">> ELSE <<"panel-notams-">>)
        \o Entry(t).part
\* The badge id of the first part of the task's section.
badgeIdFirstPart(t) ==
    (IF t[1] = "weather" THEN <<"badge-weather-">> ELSE <<"badge-notams-">>)
        \o Entry(Task(t[1], 1)).part

\* 'badge-weather-' + wp.part, 'badge-notams-' + np.part
badgeId(t) ==
    (IF t[1] = "weather" THEN <<"badge-weather-">> ELSE <<"badge-notams-">>)
        \o Entry(t).part
\* The template holds one dedicated panel and badge element per catalog entry.
PanelIds ==
    {<<"panel-weather-">> \o weatherParts[i].part : i \in 1..Len(weatherParts)}
        \cup {<<"panel-notams-">> \o notamParts[i].part : i \in 1..Len(notamParts)}
BadgeIds ==
    {<<"badge-weather-">> \o weatherParts[i].part : i \in 1..Len(weatherParts)}
        \cup {<<"badge-notams-">> \o notamParts[i].part : i \in 1..Len(notamParts)}

(***************************************************************************)
(* callSectionAnalysis                                                     *)
(***************************************************************************)
RECURSIVE Assign(_, _)
\* Object.assign(target, source) for two plain objects.
Assign(target, source) ==
    IF source.keys = <<>> THEN target
    ELSE LET k == Head(source.keys)
             v == Head(source.vals)
             rest == Obj(Tail(source.keys), Tail(source.vals))
             hit == {i \in 1..Len(target.keys) : target.keys[i] = k}
             set == IF hit = {}
                    THEN Obj(Append(target.keys, k), Append(target.vals, v))
                    ELSE Obj(target.keys,
                             [i \in 1..Len(target.vals) |->
                                 IF i \in hit THEN v ELSE target.vals[i]])
         IN  Assign(set, rest)

RECURSIVE JSONstringify(_)
\* The JSON document JSON.stringify(v) writes, as a value tree: a property
\* whose value is undefined is left out, an undefined array element is null.
JSONstringify(v) ==
    CASE v.t = "object" ->
            LET keep == {i \in 1..Len(v.keys) : v.vals[i].t # "undefined"}
                pos(n) == CHOOSE i \in keep :
                              Cardinality({j \in keep : j < i}) = n - 1
            IN  Obj([n \in 1..Cardinality(keep) |-> v.keys[pos(n)]],
                    [n \in 1..Cardinality(keep) |-> JSONstringify(v.vals[pos(n)])])
      [] v.t = "array" ->
            Arr([i \in 1..Len(v.items) |->
                    IF v.items[i].t = "undefined" THEN Null
                    ELSE JSONstringify(v.items[i])])
      [] OTHER -> v

\* A request whose data is the payload itself with extra merged into it,
\* without the flightplan key.
requestBodyFlat(section, payload, extra) ==
    LET dataObj == Assign(payload, extra)
        body == Obj(<<sSection, sData>>, <<Str(section), dataObj>>)
    IN  JSONstringify(body)

\* What callSectionAnalysis(section, payload, extra) POSTs.
requestBody(section, payload, extra) ==
    LET dataObj == Assign(Obj(<<sFlightplan>>, <<payload>>), extra)
        body == Obj(<<sSection, sData>>, <<Str(section), dataObj>>)
    IN  JSONstringify(body)

\* The extra argument the loops pass for a catalog entry.
extraOf(e) == Obj(<<sAnalyzePart, sFocus>>, <<Str(e.part), Str(e.focus)>>)

\* What the network does with one request: fetch rejects, or a response of
\* some status arrives whose body is JSON text (of value `value`) or is not.
Rejected(msg) ==
    [net |-> "reject", status |-> 0, json |-> FALSE, value |-> Undefined,
     message |-> msg]
Response(status, value) ==
    [net |-> "response", status |-> status, json |-> TRUE, value |-> value,
     message |-> <<>>]
NonJson(status, msg) ==
    [net |-> "response", status |-> status, json |-> FALSE, value |-> Undefined,
     message |-> msg]

\* Response.ok
ok(status) == status >= 200 /\ status <= 299

\* The try block without its check of res.ok.
tryFetchNoStatusCheck(o) ==
    IF o.net = "reject" THEN [threw |-> TRUE, message |-> o.message, value |-> Undefined]
    ELSE IF ~o.json THEN [threw |-> TRUE, message |-> o.message, value |-> Undefined]
    ELSE [threw |-> FALSE, message |-> <<>>, value |-> o.value]

\* The try block of callSectionAnalysis: the value it returns, or the error
\* it throws.
tryFetch(o) ==
    IF o.net = "reject" THEN [threw |-> TRUE, message |-> o.message, value |-> Undefined]
    ELSE IF ~ok(o.status)
    THEN [threw |-> TRUE, message |-> sHttp \o Digits(o.status), value |-> Undefined]
    ELSE IF ~o.json THEN [threw |-> TRUE, message |-> o.message, value |-> Undefined]
    ELSE [threw |-> FALSE, message |-> <<>>, value |-> o.value]

\* callSectionAnalysis without its catch block: an error of the try block
\* rejects the promise.
callSectionAnalysisNoCatch(o) ==
    LET r == tryFetch(o)
    IN  IF r.threw
        THEN [raised |-> TRUE, value |-> Str(r.message)]
        ELSE [raised |-> FALSE, value |-> r.value]

\* How the promise of callSectionAnalysis settles for network outcome o:
\* the catch block turns every error of the try block into {error: e.message}.
callSectionAnalysis(o) ==
    LET r == tryFetch(o)
    IN  IF r.threw
        THEN [raised |-> FALSE, value |-> Obj(<<sError>>, <<Str(r.message)>>)]
        ELSE [raised |-> FALSE, value |-> r.value]

(***************************************************************************)
(* Rendering of one part.  HTML is kept as a sequence of nodes, one per    *)
(* block the source concatenates, each holding the escaped texts it shows. *)
(***************************************************************************)
\* The later of the two values, whichever is larger.
maxLast(a, b) == b

\* Math.max(a, b)
max(a, b) == IF a >= b THEN a ELSE b

\* severityValue comparing the text as given, without toLowerCase.
severityValueCaseSensitive(risk) ==
    IF ~Truthy(risk) THEN 0
    ELSE LET r == JsString(risk)
         IN  IF r = sLow THEN 1
             ELSE IF r = sModerate \/ r = sMedium \/ r = sAmber THEN 2
             ELSE IF r = sHigh \/ r = sRed THEN 3
             ELSE 0

severityValue(risk) ==
    IF ~Truthy(risk) THEN 0
    ELSE LET r == toLowerCase(JsString(risk))
         IN  IF r = sLow THEN 1
             ELSE IF r = sModerate \/ r = sMedium \/ r = sAmber THEN 2
             ELSE IF r = sHigh \/ r = sRed THEN 3
             ELSE 0

\* renderLeafAnalysis with 'low' as the risk of a leaf that has none.
renderLeafAnalysisDefaultLow(a) ==
    LET risk == IF Truthy(Get(a, sRiskLevel)) THEN Get(a, sRiskLevel)
                ELSE Str(sLow)
        details == IF Truthy(Get(a, sDetails)) THEN Get(a, sDetails) ELSE Null
        flags == IF Get(a, sFlags).t = "array" THEN Get(a, sFlags).items ELSE <<>>
    IN  [html |-> [tag |-> "leaf",
                   heading |-> <<>>,
                   risk |-> escapeHtml(risk),
                   details |-> IF Truthy(details) THEN <<escapeHtml(details)>>
                               ELSE <<>>,
                   flags |-> [i \in 1..Len(flags) |-> escapeHtml(flags[i])]],
         risk |-> risk]

\* renderLeafAnalysis taking flags that are no array for a single flag.
renderLeafAnalysisWrapsFlags(a) ==
    LET risk == IF Truthy(Get(a, sRiskLevel)) THEN Get(a, sRiskLevel)
                ELSE Str(sUnknown)
        details == IF Truthy(Get(a, sDetails)) THEN Get(a, sDetails) ELSE Null
        flags == IF Get(a, sFlags).t = "array" THEN Get(a, sFlags).items
                 ELSE IF Truthy(Get(a, sFlags)) THEN <<Get(a, sFlags)>>
                 ELSE <<>>
    IN  [html |-> [tag |-> "leaf",
                   heading |-> <<>>,
                   risk |-> escapeHtml(risk),
                   details |-> IF Truthy(details) THEN <<escapeHtml(details)>>
                               ELSE <<>>,
                   flags |-> [i \in 1..Len(flags) |-> escapeHtml(flags[i])]],
         risk |-> risk]

\* renderLeafAnalysis(a), for a not null: {html, risk}.  heading is the <h6>
\* the caller puts before the html of an entity leaf (none: <<>>).
renderLeafAnalysis(a) ==
    LET risk == IF Truthy(Get(a, sRiskLevel)) THEN Get(a, sRiskLevel)
                ELSE Str(sUnknown)
        details == IF Truthy(Get(a, sDetails)) THEN Get(a, sDetails) ELSE Null
        flags == IF Get(a, sFlags).t = "array" THEN Get(a, sFlags).items ELSE <<>>
    IN  [html |-> [tag |-> "leaf",
                   heading |-> <<>>,
                   risk |-> escapeHtml(risk),
                   details |-> IF Truthy(details) THEN <<escapeHtml(details)>>
                               ELSE <<>>,
                   flags |-> [i \in 1..Len(flags) |-> escapeHtml(flags[i])]],
         risk |-> risk]

\* Object.entries(v) of an object or an array, as <<key, value>> pairs.
entries(v) ==
    IF v.t = "object" THEN [i \in 1..Len(v.keys) |-> <<v.keys[i], v.vals[i]>>]
    ELSE IF v.t = "array" THEN [i \in 1..Len(v.items) |-> <<Digits(i - 1), v.items[i]>>]
    ELSE <<>>

\* typeof v === 'object'
isObjectType(v) == v.t \in {"object", "array", "null"}

\* An entity loop that is left after its first entry.
renderEntitiesFirstOnly(es, acc) ==
    IF es = <<>> THEN acc
    ELSE LET rendered == renderLeafAnalysis(OrElse(Head(es)[2], EmptyObj))
             node == [rendered.html EXCEPT !.heading = <<escapeHtml(Str(Head(es)[1]))>>]
         IN  [html |-> Append(acc.html, node),
              severity |-> max(acc.severity, severityValue(rendered.risk))]

RECURSIVE renderEntities(_, _)
\* The for...of loop over Object.entries(partVal), from accumulator acc
\* ({html, severity}): one headed leaf per entry, the severity raised to the
\* leaf's when that is higher.
renderEntities(es, acc) ==
    IF es = <<>> THEN acc
    ELSE LET rendered == renderLeafAnalysis(OrElse(Head(es)[2], EmptyObj))
             node == [rendered.html EXCEPT !.heading = <<escapeHtml(Str(Head(es)[1]))>>]
         IN  renderEntities(Tail(es),
                 [html |-> Append(acc.html, node),
                  severity |-> max(acc.severity, severityValue(rendered.risk))])

\* A by_part branch that shows 'No observations.' for a partVal it cannot
\* read as a leaf or as entities.
renderPartValSkipsEmpty(res, partVal) ==
    LET start == [html |-> <<>>, severity |-> 0]
        leaves ==
            IF Truthy(partVal) /\ isObjectType(partVal) /\ Len(entries(partVal)) # 0
                  /\ ~Truthy(Get(partVal, sRiskLevel))
            THEN renderEntities(entries(partVal), start)
            ELSE IF ~Truthy(Get(partVal, sRiskLevel))
            THEN [html |-> <<[tag |-> "none"]>>, severity |-> 0]
            ELSE LET rendered == renderLeafAnalysis(OrElse(partVal, EmptyObj))
                 IN  [html |-> <<rendered.html>>,
                      severity |-> max(0, severityValue(rendered.risk))]
    IN  IF Truthy(Get(res, sRawText))
        THEN [leaves EXCEPT !.html =
                 Append(@, [tag |-> "raw", text |-> escapeHtml(Get(res, sRawText))])]
        ELSE leaves

\* The part of an iteration after partVal is known (both loops).
renderPartVal(res, partVal) ==
    LET start == [html |-> <<>>, severity |-> 0]
        leaves ==
            IF Truthy(partVal) /\ isObjectType(partVal) /\ Len(entries(partVal)) # 0
                  /\ ~Truthy(Get(partVal, sRiskLevel))
            THEN renderEntities(entries(partVal), start)
            ELSE LET rendered == renderLeafAnalysis(OrElse(partVal, EmptyObj))
                 IN  [html |-> <<rendered.html>>,
                      severity |-> max(0, severityValue(rendered.risk))]
    IN  IF Truthy(Get(res, sRawText))
        THEN [leaves EXCEPT !.html =
                 Append(@, [tag |-> "raw", text |-> escapeHtml(Get(res, sRawText))])]
        ELSE leaves

\* The key test of the single-payload flow (static/js/analyze_result.js):
\* /^[A-Z]{4}$/.test(k) || k === 'GENERIC'
isEntityKey(k) ==
    \/ /\ Len(k) = 4
       /\ \A i \in 1..4 :
             k[i] \in {"A", "B", "C", "D", "E", "F", "G", "H", "I", "J", "K", "L", "M",
                       "N", "O", "P", "Q", "R", "S", "T", "U", "V", "W", "X", "Y", "Z"}
    \/ k = <<"G", "E", "N", "E", "R", "I", "C">>

\* What the single-payload flow makes of one partVal of by_part: the html
\* of its leaves and the severity it adds to the section's overallSeverity.
\* The flow's renderLeafAnalysis and severityValue are those of the per-part
\* flow, line for line.
resultPartVal(partVal) ==
    LET start == [html |-> <<>>, severity |-> 0]
        keys == [i \in 1..Len(entries(partVal)) |-> entries(partVal)[i][1]]
    IN  IF Truthy(partVal) /\ isObjectType(partVal)
              /\ ~Truthy(Get(partVal, sRiskLevel))
              /\ Len(keys) # 0
              /\ \A i \in 1..Len(keys) : isEntityKey(keys[i])
        THEN renderEntities(entries(partVal), start)
        ELSE LET rendered == renderLeafAnalysis(OrElse(partVal, EmptyObj))
             IN  [html |-> <<rendered.html>>,
                  severity |-> max(0, severityValue(rendered.risk))]

\* const partVal of the weather loop
weatherPartVal(wp, res) ==
    OrElse(Get(Get(res, sByPart), wp.part),
           Get(Get(res, sByPart), replace(wp.part, sAlternates, <<>>)))

\* const partVal of the notams loop
notamPartVal(np, res) == OrElse(Get(Get(res, sByPart), np.part), EmptyObj)

\* An iteration whose overallSeverity starts from the highest severity an
\* earlier iteration has shown instead of 0.
renderPartCarriesSeverity(res, partVal) ==
    LET shows(r) == \E b \in BadgeIds : badge[b] = sRiskBadge \o r
        carried == IF shows(sHigh) THEN 3
                   ELSE IF shows(sModerate) THEN 2
                   ELSE IF shows(sLow) THEN 1
                   ELSE 0
    IN  IF Truthy(res) /\ Truthy(Get(res, sError))
        THEN [html |-> <<[tag |-> "error", text |-> escapeHtml(Get(res, sError))]>>,
              severity |-> carried]
        ELSE IF Truthy(res) /\ Truthy(Get(res, sByPart))
        THEN [html |-> renderPartVal(res, partVal).html,
              severity |-> max(carried, renderPartVal(res, partVal).severity)]
        ELSE [html |-> <<[tag |-> "none"]>>, severity |-> carried]

\* partHtml and overallSeverity of one iteration, given its partVal.
renderPart(res, partVal) ==
    IF Truthy(res) /\ Truthy(Get(res, sError))
    THEN [html |-> <<[tag |-> "error", text |-> escapeHtml(Get(res, sError))]>>,
          severity |-> 0]
    ELSE IF Truthy(res) /\ Truthy(Get(res, sByPart))
    THEN renderPartVal(res, partVal)
    ELSE [html |-> <<[tag |-> "none"]>>, severity |-> 0]

\* partHtml and overallSeverity of a weather loop iteration
weatherPart(wp, res) == renderPart(res, weatherPartVal(wp, res))

\* partHtml and overallSeverity of a notams loop iteration
notamPart(np, res) == renderPart(res, notamPartVal(np, res))

\* const overallRisk, as the suffix both class names end with
overallRisk(overallSeverity) ==
    IF overallSeverity = 3 THEN sHigh
    ELSE IF overallSeverity = 2 THEN sModerate
    ELSE IF overallSeverity = 1 THEN sLow
    ELSE sUnknown

(***************************************************************************)
(* The staged payload                                                      *)
(***************************************************************************)
\* Texts the slot 'fplguru_payload' is found to hold when the page loads.
tWrapper == <<"{\"flightplan\":{\"departure\":\"KJFK\"},\"observations\":[]}">>
tBare == <<"{\"departure\":\"EGLL\"}">>
tNull == <<"null">>
tTruncated == <<"{\"flightplan\":">>

\* sessionStorage.getItem('fplguru_payload'): null when the slot is empty.
StagedPayloads == {Null, Str(<<>>), Str(tTruncated), Str(tNull), Str(tWrapper), Str(tBare)}

(***************************************************************************)
(* JSON texts                                                              *)
(***************************************************************************)
RECURSIVE JoinBy(_, _)
\* The texts ss joined by the text sep.
JoinBy(ss, sep) ==
    IF ss = <<>> THEN <<>>
    ELSE IF Len(ss) = 1 THEN ss[1]
    ELSE ss[1] \o sep \o JoinBy(Tail(ss), sep)

\* A JSON string literal; the strings of this model hold no character that
\* JSON escapes.
Quote(s) == <<"\"">> \o s \o <<"\"">>

RECURSIVE JSONtext(_)
\* The text JSON.stringify(v) returns for the value tree d it writes.
JSONtext(d) ==
    CASE d.t = "object" ->
            <<"{">> \o JoinBy([i \in 1..Len(d.keys) |->
                                 Quote(d.keys[i]) \o <<":">> \o JSONtext(d.vals[i])],
                             <<",">>) \o <<"}">>
      [] d.t = "array" ->
            <<"[">> \o JoinBy([i \in 1..Len(d.items) |-> JSONtext(d.items[i])], <<",">>)
                \o <<"]">>
      [] d.t = "string" -> Quote(d.s)
      [] OTHER -> JsString(d)

\* A line break followed by n spaces.
NewLine(n) == <<"\n">> \o [i \in 1..n |-> " "]

RECURSIVE JSONpretty(_, _)
\* The text JSON.stringify(v, null, 2) returns for value tree d, at
\* indentation n.
JSONpretty(d, n) ==
    CASE d.t = "object" /\ d.keys # <<>> ->
            <<"{">> \o NewLine(n + 2)
                \o JoinBy([i \in 1..Len(d.keys) |->
                              Quote(d.keys[i]) \o <<":", " ">>
                                  \o JSONpretty(d.vals[i], n + 2)],
                          <<",">> \o NewLine(n + 2))
                \o NewLine(n) \o <<"}">>
      [] d.t = "array" /\ d.items # <<>> ->
            <<"[">> \o NewLine(n + 2)
                \o JoinBy([i \in 1..Len(d.items) |-> JSONpretty(d.items[i], n + 2)],
                          <<",">> \o NewLine(n + 2))
                \o NewLine(n) \o <<"]">>
      [] OTHER -> JSONtext(d)

(***************************************************************************)
(* The PDF parse reply and what the submit handler makes of it             *)
(***************************************************************************)
sObservations == <<"observations">>
sApplicationJson ==
    <<"a", "p", "p", "l", "i", "c", "a", "t", "i", "o", "n", "/", "j", "s", "o", "n">>

\* let flightplanObj of the submit handler, for the parsed reply data.
flightplanObjOf(data) ==
    IF ~Truthy(data) THEN Null
    ELSE IF Truthy(Get(data, sFlightplan)) /\ isObjectType(Get(data, sFlightplan))
    THEN Get(data, sFlightplan)
    ELSE IF isObjectType(data) THEN data
    ELSE Null

\* A wrapper whose flightplan is always the whole reply.
wrapperOfWholeReply(data) ==
    Obj(<<sFlightplan, sObservations>>, <<OrElse(data, EmptyObj), Arr(<<>>)>>)

\* const wrapper = { flightplan: flightplanObj || data || {}, observations: [] }
wrapperOf(data) ==
    Obj(<<sFlightplan, sObservations>>,
        <<OrElse(flightplanObjOf(data), OrElse(data, EmptyObj)), Arr(<<>>)>>)

\* const raw of the submit handler
rawOf(data) ==
    OrElse(Get(data, <<"raw_text">>),
           OrElse(Get(data, <<"raw_text_snippet">>),
                  OrElse(Get(data, <<"extracted_text">>),
                         OrElse(Get(data, sRawText), Null))))

\* Values the parse endpoint answers with: the legacy shape with the
\* extracted text, a bare flightplan, a flightplan that is no object, a
\* string, and null.
parseData ==
    { Obj(<<sFlightplan, <<"raw_text">>>>,
          <<Obj(<<sDeparture>>, <<Str(<<"KJFK">>)>>), Str(<<"(FPL-N123AB-IS ...)">>)>>),
      Obj(<<sDeparture>>, <<Str(<<"EGLL">>)>>),
      Obj(<<sFlightplan, <<"raw_text_snippet">>>>, <<Str(<<"n/a">>), Str(<<"FPL">>)>>),
      Str(<<"ok">>),
      Null }

\* What the network does with a parse request: fetch rejects, or a reply of
\* some status and content type arrives whose body is JSON text of value
\* `value`, or is text that is no JSON.
ParseRejected(msg) ==
    [net |-> "reject", status |-> 0, ctype |-> Null, json |-> FALSE,
     value |-> Undefined, message |-> msg]
ParseReply(status, ctype, value) ==
    [net |-> "response", status |-> status, ctype |-> ctype, json |-> TRUE,
     value |-> value, message |-> <<>>]
ParseText(status, ctype, text) ==
    [net |-> "response", status |-> status, ctype |-> ctype, json |-> FALSE,
     value |-> Undefined, message |-> text]
NoReply ==
    [net |-> "none", status |-> 0, ctype |-> Null, json |-> FALSE,
     value |-> Undefined, message |-> <<>>]

parseReplies ==
    { ParseRejected(<<"Failed to fetch">>),
      ParseText(500, Str(<<"t", "e", "x", "t", "/", "h", "t", "m", "l">>),
                <<"<h1>Server Error (500)</h1>">>),
      ParseText(200, Null, <<"uploaded">>),
      ParseReply(200, Str(<<"t", "e", "x", "t", "/", "p", "l", "a", "i", "n">>),
                 Obj(<<sDeparture>>, <<Str(<<"EGLL">>)>>)),
      ParseText(200, Str(sApplicationJson), <<"Unexpected token ", "<", " in JSON at position 0">>),
      ParseReply(403, Str(sApplicationJson), Obj(<<sError>>, <<Str(<<"sign in first">>)>>)) }
        \cup { ParseReply(200, Str(sApplicationJson), d) : d \in parseData }
        \cup { ParseReply(200,
                          Str(<<"A", "p", "p", "l", "i", "c", "a", "t", "i", "o", "n", "/",
                                "J", "S", "O", "N", ";", " ", "c", "h", "a", "r", "s", "e",
                                "t", "=", "u", "t", "f", "-", "8">>),
                          Obj(<<sDeparture>>, <<Str(<<"EGLL">>)>>)) }

\* Values the operator may have typed into the payload textarea as JSON.
typedData ==
    { Obj(<<sFlightplan, sObservations>>,
          <<Obj(<<sDeparture>>, <<Str(<<"LFPG">>)>>), Arr(<<>>)>>),
      Obj(<<sFlightplan>>, <<Null>>) }

\* Texts the payload textarea may hold by the operator's typing: nothing,
\* text that is no JSON, and JSON.
typedTexts ==
    { <<>>, <<"{flightplan: ">> } \cup { JSONtext(d) : d \in typedData }

\* The value trees of every JSON text this model writes or reads.
Documents ==
    { JSONstringify(wrapperOf(r.value)) : r \in {x \in parseReplies : x.json} }
        \cup { JSONstringify(Obj(<<sFlightplan, sObservations>>,
                                 <<flightplanObjOf(r.value), Arr(<<>>)>>)) :
                 r \in {x \in parseReplies : x.json} }
        \cup typedData

\* JSON.parse on the texts above and on the JSON texts of Documents, compact
\* or indented: the value, or the SyntaxError it throws.
JSONparse(text) ==
    CASE text = tWrapper ->
            [ok |-> TRUE, message |-> <<>>,
             value |-> Obj(<<sFlightplan, <<"observations">> >>,
                           <<Obj(<<sDeparture>>, <<Str(<<"KJFK">>)>>), Arr(<<>>)>>)]
      [] text = tBare ->
            [ok |-> TRUE, message |-> <<>>,
             value |-> Obj(<<sDeparture>>, <<Str(<<"EGLL">>)>>)]
      [] text = tNull -> [ok |-> TRUE, message |-> <<>>, value |-> Null]
      [] \E d \in Documents : text \in {JSONtext(d), JSONpretty(d, 0)} ->
            [ok |-> TRUE, message |-> <<>>,
             value |-> CHOOSE d \in Documents : text \in {JSONtext(d), JSONpretty(d, 0)}]
      [] OTHER ->
            [ok |-> FALSE, message |-> <<"Unexpected end of JSON input">>,
             value |-> Undefined]

(***************************************************************************)
(* The page                                                                *)
(***************************************************************************)
\* innerHTML and className of an element the handler has not written.
Template == [title |-> <<>>, body |-> <<>>]
riskClasses ==
    {sRiskClass \o sLow, sRiskClass \o sModerate, sRiskClass \o sHigh,
     sRiskClass \o sUnknown}

\* The page before DOMContentLoaded fires.
Blank ==
    /\ pc = "start"
    /\ flightplan = Undefined
    /\ idx = 0
    /\ inflight = <<>>
    /\ requests = <<>>
    /\ responses = <<>>
    /\ ret = [t \in Tasks |-> <<>>]
    /\ panel = [p \in PanelIds |-> Template]
    /\ badge = [b \in BadgeIds |-> <<>>]
    /\ border = [p \in PanelIds |-> {}]
    /\ weightsText = <<>>
    /\ hidden = FALSE
    /\ rejection = <<>>

\* The entry page's state while the results page is shown.
Landed ==
    /\ variant = "current"
    /\ location = "result"
    /\ tgLoggedIn = "unset"
    /\ tgStatus = <<>>
    /\ tgRemaining = <<>>
    /\ files = 0
    /\ disabled = TRUE
    /\ payloadText = <<>>
    /\ rawText = <<>>
    /\ result = <<>>
    /\ parsing = 0
    /\ timers = 0
    /\ goBtn = FALSE
    /\ posted = <<>>
    /\ last = [op |-> "none", reply |-> NoReply, threw |-> FALSE]

Init ==
    /\ storage \in StagedPayloads
    /\ Blank
    /\ sevIn = Undefined
    /\ sevOut = <<>>
    /\ Landed

\* A loop that leaves its catalog at the first error response.
advanceBreakOnError(i, res) == IF Truthy(Get(res, sError)) THEN i + 9 ELSE i + 1

\* A loop that repeats an entry until its response is no error.
advanceRetryOnError(i, res) == IF Truthy(Get(res, sError)) THEN i ELSE i + 1

\* A loop that passes over the entry after one whose response is an error.
advanceSkipAfterError(i, res) == IF Truthy(Get(res, sError)) THEN i + 2 ELSE i + 1

\* The index of the iteration after iteration i, which resolved with res:
\* for...of moves on whatever the iteration did.
advance(i, res) == i + 1

\* A call that sends the request of the entry and, without waiting, the
\* same request once more.
DispatchTwice(t) ==
    /\ requests' =
          Append(Append(requests,
                        requestBody(SectionOf(t), flightplan', extraOf(Entry(t)))),
                 requestBody(SectionOf(t), flightplan', extraOf(Entry(t))))
    /\ inflight' = <<t>>

\* A call of callSectionAnalysis up to its await of fetch: the request is sent.
Dispatch(t) ==
    /\ requests' = Append(requests,
                          requestBody(SectionOf(t), flightplan', extraOf(Entry(t))))
    /\ inflight' = <<t>>

\* A handler without the guard on the staged payload: with nothing staged
\* it runs the catalog on an empty flightplan.
LoadDefaultsEmpty ==
    /\ pc = "start"
    /\ LET parsed == IF Truthy(storage) THEN JSONparse(storage.s)
                     ELSE [ok |-> TRUE, message |-> <<>>, value |-> EmptyObj]
           payload == parsed.value
       IN  IF ~parsed.ok \/ payload.t \in {"null", "undefined"}
           THEN /\ rejection' = <<[name |-> "Error", message |-> parsed.message]>>
                /\ pc' = "rejected"
                /\ UNCHANGED <<flightplan, idx, inflight, requests, hidden>>
           ELSE /\ flightplan' = OrElse(Get(payload, sFlightplan), payload)
                /\ hidden' = TRUE
                /\ idx' = 1
                /\ pc' = "weather_call"
                /\ Dispatch(Task("weather", 1))
                /\ UNCHANGED rejection
    /\ UNCHANGED <<storage, responses, ret, panel, badge, border, weightsText, sevIn,
                   sevOut, entryVars>>

\* DOMContentLoaded fires: the handler runs up to its first await.
Load ==
    /\ pc = "start"
    /\ IF ~Truthy(storage)
       THEN /\ weightsText' = sNoPayload
            /\ pc' = "returned"
            /\ UNCHANGED <<flightplan, idx, inflight, requests, hidden, rejection>>
       ELSE LET parsed == JSONparse(storage.s)
                payload == parsed.value
            IN  IF ~parsed.ok
                THEN /\ rejection' = <<[name |-> "SyntaxError", message |-> parsed.message]>>
                     /\ pc' = "rejected"
                     /\ UNCHANGED <<flightplan, idx, inflight, requests, hidden,
                                    weightsText>>
                ELSE IF payload.t \in {"null", "undefined"}
                THEN /\ rejection' =
                            <<[name |-> "TypeError",
                               message |-> <<"Cannot read properties of null">>]>>
                     /\ pc' = "rejected"
                     /\ UNCHANGED <<flightplan, idx, inflight, requests, hidden,
                                    weightsText>>
                ELSE /\ flightplan' = OrElse(Get(payload, sFlightplan), payload)
                     /\ hidden' = TRUE
                     /\ idx' = 1
                     /\ pc' = "weather_call"
                     /\ Dispatch(Task("weather", 1))
                     /\ UNCHANGED <<weightsText, rejection>>
    /\ UNCHANGED <<storage, responses, ret, panel, badge, border, sevIn, sevOut,
                   entryVars>>

\* The request in flight meets network outcome o and callSectionAnalysis
\* settles; a rejection would propagate through the loop's await and reject
\* the handler.
CallSettles(o) ==
    /\ pc \in {"weather_call", "notams_call"}
    /\ inflight # <<>>
    /\ LET t == inflight[1]
           r == callSectionAnalysis(o)
       IN  /\ inflight' = <<>>
           /\ responses' = Append(responses, [task |-> t, outcome |-> o])
           /\ IF r.raised
              THEN /\ pc' = "rejected"
                   /\ rejection' = <<[name |-> "Error", message |-> r.value]>>
                   /\ UNCHANGED ret
              ELSE /\ pc' = IF pc = "weather_call" THEN "weather_body" ELSE "notams_body"
                   /\ ret' = [ret EXCEPT ![t] = <<r.value>>]
                   /\ UNCHANGED rejection
    /\ UNCHANGED <<storage, flightplan, idx, requests, panel, badge, border,
                   weightsText, hidden, sevIn, sevOut,
                   entryVars>>

\* The writes of one iteration to the part's own elements.
WritePart(t, part) ==
    /\ panel' = IF panelId(t) \in DOMAIN panel
                THEN [panel EXCEPT ![panelId(t)] =
                         [title |-> escapeHtml(Str(Entry(t).title)), body |-> part.html]]
                ELSE panel
    /\ badge' = IF badgeId(t) \in DOMAIN badge
                THEN [badge EXCEPT ![badgeId(t)] =
                         sRiskBadge \o overallRisk(part.severity)]
                ELSE badge
    /\ border' = IF panelId(t) \in DOMAIN border
                 THEN [border EXCEPT ![panelId(t)] =
                          (@ \ riskClasses)
                              \cup {sRiskClass \o overallRisk(part.severity)}]
                 ELSE border

\* The rest of a weather iteration after its await, and the loop's next step:
\* the next weather request, or the first notams request.
WeatherBody ==
    /\ pc = "weather_body"
    /\ LET t == Task("weather", idx)
           res == ret[t][1]
           next == advance(idx, res)
       IN  /\ WritePart(t, weatherPart(weatherParts[idx], res))
           /\ UNCHANGED flightplan
           /\ IF next <= Len(weatherParts)
              THEN /\ idx' = next
                   /\ pc' = "weather_call"
                   /\ Dispatch(Task("weather", next))
              ELSE /\ idx' = 1
                   /\ pc' = "notams_call"
                   /\ Dispatch(Task("notams", 1))
    /\ UNCHANGED <<storage, responses, ret, weightsText, hidden, rejection, sevIn,
                   sevOut, entryVars>>

\* The rest of a notams iteration after its await, and the loop's next step:
\* the next notams request, or the end of the handler.
NotamsBody ==
    /\ pc = "notams_body"
    /\ LET t == Task("notams", idx)
           res == ret[t][1]
           next == advance(idx, res)
       IN  /\ WritePart(t, notamPart(notamParts[idx], res))
           /\ UNCHANGED flightplan
           /\ IF next <= Len(notamParts)
              THEN /\ idx' = next
                   /\ pc' = "notams_call"
                   /\ Dispatch(Task("notams", next))
              ELSE /\ pc' = "done"
                   /\ UNCHANGED <<idx, requests, inflight>>
    /\ UNCHANGED <<storage, responses, ret, weightsText, hidden, rejection, sevIn,
                   sevOut, entryVars>>

(***************************************************************************)
(* Network outcomes                                                        *)
(***************************************************************************)
\* A by_part response for part p whose value is v.
byPart(p, v) == Obj(<<sByPart>>, <<Obj(<<p>>, <<v>>)>>)
leaf(risk) == Obj(<<sRiskLevel>>, <<Str(risk)>>)

\* Outcomes of a request of a whole run: a transport failure, a server
\* error, and a classification of the part.
RunOutcomes(t) ==
    { Rejected(<<"Failed to fetch">>),
      Response(500, Obj(<<sError>>, <<Str(<<"internal">>)>>)),
      Response(200, byPart(Entry(t).part, leaf(sLow))) }

\* The network answers the request in flight.
Settle ==
    /\ inflight # <<>>
    /\ \E o \in RunOutcomes(inflight[1]) : CallSettles(o)

Next ==
    \/ Load
    \/ Settle
    \/ WeatherBody
    \/ NotamsBody

Spec == Init /\ [][Next]_vars

(***************************************************************************)
(* Runs in which one request meets any of a wide set of outcomes and every *)
(* other request is answered with the same plain classification.           *)
(***************************************************************************)
\* Most entities of an entity map.
MaxEntities == 3

\* Values of a leaf's risk_level; undefined stands for a leaf without one.
riskValues ==
    { Undefined, Str(sLow), Str(<<"M", "o", "d", "e", "r", "a", "t", "e">>),
      Str(<<"H", "I", "G", "H">>), Str(<<"s", "e", "v", "e", "r", "e">>) }

\* A leaf with that risk_level and a details text.
rawLeaf(r) ==
    IF r.t = "undefined"
    THEN Obj(<<sDetails>>, <<Str(<<"T", "S", "&", "C", "B">>)>>)
    ELSE Obj(<<sRiskLevel, sDetails>>, <<r, Str(<<"T", "S", "&", "C", "B">>)>>)

airports ==
    << <<"K", "J", "F", "K">>, <<"K", "E", "W", "R">>, <<"E", "G", "L", "L">>,
       <<"L", "F", "P", "G">>, <<"E", "D", "D", "F">> >>

\* Entity maps of 1..MaxEntities leaves, in every order of risk levels.
entityMaps ==
    UNION { { Obj([i \in 1..n |-> airports[i]], [i \in 1..n |-> rawLeaf(rs[i])]) :
                rs \in [1..n -> riskValues] } : n \in 1..MaxEntities }

\* Values of the error property of a response.
errorValues ==
    { Str(<<"quota ", "<", "exceeded", ">">>), Str(<<>>), Null }

\* JSON bodies a 2xx response for part p may carry.
richBodies(p) ==
    { byPart(p, v) : v \in { rawLeaf(r) : r \in riskValues } \cup entityMaps
                          \cup { EmptyObj, Null, Str(<<"n/a">>), Num(7) } }
        \cup { Obj(<<sByPart>>, <<EmptyObj>>) }
        \cup { Obj(<<sByPart, sRawText>>,
                   <<Obj(<<p>>, <<leaf(sHigh)>>), Str(<<"raw ", "&", " text">>)>>) }
        \cup { Obj(<<sError>>, <<e>>) : e \in errorValues }
        \cup { Obj(<<sError, sByPart>>, <<e, Obj(<<p>>, <<leaf(sHigh)>>)>>) :
                 e \in errorValues }
        \cup { Obj(<<sRiskLevel, sFlags>>,
                   <<Str(sModerate), Arr(<<Str(<<"turbulence">>)>>)>>) }
        \cup { Null, Num(5), Str(<<"ok">>), EmptyObj }

\* Candidates that carry a risk_level of their own: an empty one, null, one
\* next to a key that looks like an entity, and leaves with flags that are a
\* sequence and flags that are not.
sEnroute == <<"e", "n", "r", "o", "u", "t", "e">>
ownRiskCandidates ==
    { Obj(<<sRiskLevel, sDetails>>, <<Str(<<>>), Str(<<"fog">>)>>),
      Obj(<<sRiskLevel, sDetails>>, <<Null, Str(<<"fog">>)>>),
      Obj(<<sRiskLevel, airports[1]>>, <<Str(sLow), leaf(sHigh)>>),
      Obj(<<sRiskLevel, sFlags>>,
          <<Str(sHigh), Arr(<<Str(<<"gusts">>), Str(<<"L", "L", "W", "S">>)>>)>>),
      Obj(<<sRiskLevel, sFlags>>, <<Str(sModerate), Str(<<"gusts">>)>>) }

\* Objects without a risk_level whose keys are no airport codes, and ones
\* whose members are no leaves.
otherMaps ==
    { Obj(<<<<"rwy ", "0", "4", "L">>, <<"G", "E", "N", "E", "R", "I", "C">>>>,
          <<leaf(sHigh), leaf(sLow)>>),
      Obj(<<airports[1], airports[2]>>, <<Str(<<"text">>), Num(5)>>),
      Arr(<<>>) }

\* A map of two entities whose leaves lack fields: one has no risk_level
\* and a string for flags, the other a risk_level that is no severity word.
defaultedLeaves ==
    Obj(<<airports[1], airports[2]>>,
        <<Obj(<<sFlags>>, <<Str(<<"gusts">>)>>),
          Obj(<<sRiskLevel, sFlags>>,
              <<Str(<<"s", "e", "v", "e", "r", "e">>), Arr(<<Str(<<"ice">>)>>)>>)>>)

\* by_part objects that hold the alias of part p (p without '_alternates')
\* without p, next to p, and next to a null p; none when p has no alias.
aliasBodies(p) ==
    LET alias == replace(p, sAlternates, <<>>)
    IN  IF alias = p THEN {}
        ELSE { Obj(<<sByPart>>, <<Obj(<<alias>>, <<leaf(sHigh)>>)>>),
               Obj(<<sByPart>>, <<Obj(<<p, alias>>, <<leaf(sLow), leaf(sHigh)>>)>>),
               Obj(<<sByPart>>, <<Obj(<<p, alias>>, <<Null, leaf(sHigh)>>)>>) }

\* Further JSON bodies a 2xx response for part p may carry.
shapeBodies(p) ==
    { byPart(p, v) : v \in ownRiskCandidates \cup otherMaps \cup {defaultedLeaves} }
        \cup aliasBodies(p)
        \cup { Obj(<<sByPart>>, <<Obj(<<<<"other">>>>, <<leaf(sHigh)>>)>>),
               Obj(<<sByPart>>, <<Str(<<"text">>)>>),
               Obj(<<<<"status">>>>, <<Str(<<"done">>)>>),
               leaf(sHigh),
               Obj(<<sRiskLevel, sRawText>>,
                   <<Str(sModerate), Str(<<"raw ", "<", "b", ">", " text">>)>>),
               Bool(TRUE) }

\* Status codes a response may carry.
httpStatuses == {200, 201, 299, 304, 400, 404, 500, 503}

richOutcomes(t) ==
    { Response(200, b) : b \in richBodies(Entry(t).part) \cup shapeBodies(Entry(t).part) }
        \cup { Response(st, byPart(Entry(t).part, leaf(sHigh))) : st \in httpStatuses }
        \cup { NonJson(st, <<"Unexpected token ", "<", " in JSON at position 0">>) :
                 st \in httpStatuses }
        \cup { Rejected(<<"Failed to fetch">>) }

\* The plain classification every other request is answered with.
baseline(t) == Response(200, byPart(Entry(t).part, leaf(sLow)))

\* A request may meet any outcome as long as every request before it met the
\* plain one.
focusOutcomes(t) ==
    IF \A u \in Tasks : ret[u] = <<>> \/ ret[u] = <<baseline(u).value>>
    THEN richOutcomes(t) \cup {baseline(t)}
    ELSE {baseline(t)}

SettleFocus ==
    /\ inflight # <<>>
    /\ \E o \in focusOutcomes(inflight[1]) : CallSettles(o)

InitFocus == Init /\ storage = Str(tWrapper)

NextFocus ==
    \/ Load
    \/ SettleFocus
    \/ WeatherBody
    \/ NotamsBody

SpecFocus == InitFocus /\ [][NextFocus]_vars

(***************************************************************************)
(* Runs of the end-to-end scenarios: every weather request is answered     *)
(* with a low risk and every notams request with a moderate risk, as a     *)
(* bare leaf or under by_part, or with a server error.                     *)
(***************************************************************************)
scenarioOutcomes(t) ==
    IF t[1] = "weather"
    THEN { Response(200, leaf(sLow)),
           Response(200, byPart(Entry(t).part, leaf(sLow))) }
    ELSE { Response(200, leaf(sModerate)),
           Response(200, byPart(Entry(t).part, leaf(sModerate))),
           Response(500, Obj(<<sError>>, <<Str(<<"internal">>)>>)) }

SettleScenario ==
    /\ inflight # <<>>
    /\ \E o \in scenarioOutcomes(inflight[1]) : CallSettles(o)

InitScenario == Init /\ storage = Str(tWrapper)

NextScenario ==
    \/ Load
    \/ SettleScenario
    \/ WeatherBody
    \/ NotamsBody

SpecScenario == InitScenario /\ [][NextScenario]_vars

(***************************************************************************)
(* severityValue on its own                                                *)
(***************************************************************************)
\* The words severityValue knows.
keywords == {sLow, sModerate, sMedium, sAmber, sHigh, sRed}

\* Every spelling of word k in upper and lower case letters.
caseVariants(k) ==
    LET up == <<"A", "B", "C", "D", "E", "F", "G", "H", "I", "J", "K", "L", "M",
                "N", "O", "P", "Q", "R", "S", "T", "U", "V", "W", "X", "Y", "Z">>
        lo == <<"a", "b", "c", "d", "e", "f", "g", "h", "i", "j", "k", "l", "m",
                "n", "o", "p", "q", "r", "s", "t", "u", "v", "w", "x", "y", "z">>
        upper(c) == up[CHOOSE i \in 1..26 : lo[i] = c]
    IN  { [i \in 1..Len(k) |-> IF i \in U THEN upper(k[i]) ELSE k[i]] :
            U \in SUBSET (1..Len(k)) }

\* Arguments severityValue is studied on: the words in every letter case,
\* near misses, the empty string, missing values and other JSON scalars.
severityInputs ==
    { Str(s) : s \in UNION { caseVariants(k) : k \in keywords } }
        \cup { Str(<<>>), Str(sUnknown), Str(<<"l", "o">>), Str(<<"l", "o", "w", "s">>),
               Str(<<" ", "l", "o", "w">>), Str(<<"h", "i", "g", "h", "e", "r">>),
               Str(<<"R", "E", "D", "!">>), Str(<<"s", "e", "v", "e", "r", "e">>),
               Str(<<"3">>), Str(<<"n", "o", "n", "e">>) }
        \cup { Undefined, Null, Num(0), Num(1), Num(3), Bool(TRUE), Bool(FALSE) }

InitSev ==
    /\ storage = Null
    /\ Blank
    /\ sevIn \in severityInputs
    /\ sevOut = <<>>
    /\ Landed

\* One call severityValue(sevIn).
SevCall ==
    /\ sevOut = <<>>
    /\ sevOut' = <<severityValue(sevIn)>>
    /\ UNCHANGED <<runVars, sevIn, entryVars>>

NextSev == SevCall

SpecSev == InitSev /\ [][NextSev]_vars

(***************************************************************************)
(* The run under the scheduling the platform gives it: a request in flight *)
(* is eventually answered or fails, and a continuation that is ready runs. *)
(***************************************************************************)
\* The handler resumes after an await whose promise has resolved: the step of
\* WeatherBody or NotamsBody, told by the handler's position alone.
Resume ==
    /\ pc \in {"weather_body", "notams_body"}
    /\ pc' \in {"weather_call", "notams_call", "done"}

SpecLive ==
    /\ Init
    /\ [][Next]_vars
    /\ WF_vars(Load)
    /\ WF_vars(Settle)
    /\ WF_pc(Resume)

(***************************************************************************)
(* The entry page (static/js/analyze.js, lines 1-214 and 422-692).  The    *)
(* file holds the entry script twice: an earlier variant without Telegram  *)
(* sign-in, whose Analyze button carries two click handlers, and the       *)
(* current one.  A page runs one of the two.                               *)
(***************************************************************************)
\* Most parse requests in flight and most redirects scheduled at one time.
MaxPending == 1


\* updateAnalyzeEnabled of the earlier variant: the value it gives
\* analyzeBtn.disabled.
updateAnalyzeEnabledEarlier(stored, n) == ~(Truthy(stored) \/ n > 0)

\* updateAnalyzeEnabled: the value it gives analyzeBtn.disabled.
updateAnalyzeEnabled(flag, stored, n) ==
    LET isLoggedIn == flag = "1"
        hasStored == Truthy(stored)
        hasFile == n > 0
    IN  ~(isLoggedIn /\ (hasStored \/ hasFile))

\* The texts the slot may hold when the entry page loads: nothing, a wrapper
\* staged by an earlier visit, and text that is no JSON.
EntryStaged ==
    { Null,
      Str(JSONtext(Obj(<<sFlightplan, sObservations>>,
                       <<Obj(<<sDeparture>>, <<Str(<<"KJFK">>)>>), Arr(<<>>)>>))),
      Str(tTruncated) }

\* The entry page after its script has run.
InitEntry ==
    /\ storage \in EntryStaged
    /\ Blank
    /\ sevIn = Undefined
    /\ sevOut = <<>>
    /\ variant \in {"earlier", "current"}
    /\ location = "entry"
    /\ tgLoggedIn = "unset"
    /\ tgStatus = <<>>
    /\ tgRemaining = <<>>
    /\ files = 0
    /\ disabled = IF variant = "earlier" THEN updateAnalyzeEnabledEarlier(storage, 0)
                  ELSE updateAnalyzeEnabled("unset", storage, 0)
    /\ payloadText = <<>>
    /\ rawText = <<>>
    /\ result = <<>>
    /\ parsing = 0
    /\ timers = 0
    /\ goBtn = FALSE
    /\ posted = <<>>
    /\ last = [op |-> "none", reply |-> NoReply, threw |-> FALSE]

\* The operator types into the payload textarea.
EditPayload ==
    /\ location = "entry"
    /\ \E text \in typedTexts : text # payloadText /\ payloadText' = text
    /\ last' = [op |-> "edit", reply |-> NoReply, threw |-> FALSE]
    /\ UNCHANGED <<runVars, sevIn, sevOut, variant, location, tgLoggedIn, tgStatus,
                   tgRemaining, files, disabled, rawText, result, parsing, timers, goBtn, posted>>

\* The submit handler up to its await of fetch, for a file input of n files.
SubmitStart(n) ==
    IF n = 0
    THEN result' = <<"No PDF selected">> /\ UNCHANGED parsing
    ELSE result' = <<"Parsing PDF...">> /\ parsing' = parsing + 1

\* The operator submits the parse form.
SubmitForm ==
    /\ location = "entry"
    /\ parsing < MaxPending
    /\ SubmitStart(files)
    /\ last' = [op |-> "submit", reply |-> NoReply, threw |-> FALSE]
    /\ UNCHANGED <<runVars, sevIn, sevOut, variant, location, tgLoggedIn, tgStatus,
                   tgRemaining, files, disabled, payloadText, rawText, timers, goBtn, posted>>

\* The change handler of the earlier variant, for a selection of n files.
changeEarlier(n) ==
    /\ disabled' = updateAnalyzeEnabledEarlier(storage, n)
    /\ IF n > 0 THEN SubmitStart(n) ELSE UNCHANGED <<result, parsing>>

\* The change handler of the current variant, for a selection of n files.
change(n) ==
    LET isLoggedIn == tgLoggedIn = "1"
    IN  IF n > 0 /\ ~isLoggedIn
        THEN /\ result' = <<"Please sign in with Telegram (use the widget below) before parsing. Click the Telegram login button to sign in.">>
             /\ disabled' = TRUE
             /\ UNCHANGED parsing
        ELSE /\ disabled' = updateAnalyzeEnabled(tgLoggedIn, storage, n)
             /\ IF n > 0 THEN SubmitStart(n) ELSE UNCHANGED <<result, parsing>>

\* The operator selects a file, or clears the selection.
FileChange ==
    /\ location = "entry"
    /\ parsing < MaxPending
    /\ \E n \in 0..1 :
          /\ n > 0 \/ files > 0
          /\ files' = n
          /\ IF variant = "earlier" THEN changeEarlier(n) ELSE change(n)
    /\ last' = [op |-> "change", reply |-> NoReply, threw |-> FALSE]
    /\ UNCHANGED <<runVars, sevIn, sevOut, variant, location, tgLoggedIn, tgStatus,
                   tgRemaining, payloadText, rawText, timers, goBtn,
                   posted>>

\* sessionStorage.setItem throws when the storage is full, which a write
\* that leaves the slot's text as it is cannot make it.
setItemThrows(full, text) == full /\ Str(text) # storage

\* A submit handler that reads every reply as JSON, whatever its content
\* type says.
takenForJsonAlways(r) == TRUE

\* The reply's body is taken for JSON: its content type, lower-cased, holds
\* 'application/json'.
takenForJson(r) ==
    LET contentType == toLowerCase(OrElse(r.ctype, Str(<<>>)).s)
    IN  IndexOf(contentType, sApplicationJson) # 0

\* A handler that schedules the redirect before it writes the slot, so that
\* the redirect stays scheduled when the write throws.
stagedScheduleFirst(text, threw) ==
    IF threw
    THEN [storage |-> storage, timers |-> timers + 1, posted |-> Append(posted, text),
          location |-> "submit_analysis", disabled |-> disabled]
    ELSE [storage |-> Str(text), timers |-> timers + 1, posted |-> posted,
          location |-> location,
          disabled |-> IF variant = "current" THEN FALSE ELSE disabled]

\* What the try around sessionStorage.setItem leaves: the slot written, the
\* button enabled (current variant) and a redirect scheduled; or, the write
\* having thrown, the fallback form posted to /api/submit_analysis/.
staged(text, threw) ==
    IF threw
    THEN [storage |-> storage, timers |-> timers, posted |-> Append(posted, text),
          location |-> "submit_analysis", disabled |-> disabled]
    ELSE [storage |-> Str(text), timers |-> timers + 1, posted |-> posted,
          location |-> location,
          disabled |-> IF variant = "current" THEN FALSE ELSE disabled]

\* A parse request is answered and the submit handler runs to its end.
ParseSettles ==
    /\ location = "entry"
    /\ parsing > 0
    /\ timers < MaxPending
    /\ parsing' = parsing - 1
    /\ \E r \in parseReplies, full \in BOOLEAN :
          IF r.net = "reject" \/ (takenForJson(r) /\ ~r.json)
          THEN /\ result' = <<"Error parsing PDF: ">> \o r.message
               /\ last' = [op |-> "parse", reply |-> r, threw |-> FALSE]
               /\ UNCHANGED <<storage, disabled, payloadText, rawText, timers, posted,
                              location>>
          ELSE IF ~takenForJson(r)
          THEN /\ result' = <<"Server returned non-JSON response: ">>
                               \o (IF r.json THEN JSONtext(JSONstringify(r.value))
                                   ELSE r.message)
               /\ last' = [op |-> "parse", reply |-> r, threw |-> FALSE]
               /\ UNCHANGED <<storage, disabled, payloadText, rawText, timers, posted,
                              location>>
          ELSE LET data == r.value
                   flightplanObj == flightplanObjOf(data)
                   wrapper == wrapperOf(data)
                   text == JSONtext(JSONstringify(wrapper))
                   threw == Truthy(data) /\ setItemThrows(full, text)
               IN  /\ payloadText' =
                         IF Truthy(flightplanObj)
                         THEN JSONpretty(JSONstringify(
                                  Obj(<<sFlightplan, sObservations>>,
                                      <<flightplanObj, Arr(<<>>)>>)), 0)
                         ELSE payloadText
                   /\ rawText' = IF Truthy(data)
                                 THEN JsString(OrElse(rawOf(data), Str(<<>>)))
                                 ELSE rawText
                   /\ IF ~Truthy(data)
                      THEN UNCHANGED <<storage, disabled, timers, posted, location>>
                      ELSE LET after == staged(text, threw)
                           IN  /\ storage' = after.storage
                               /\ disabled' = after.disabled
                               /\ timers' = after.timers
                               /\ posted' = after.posted
                               /\ location' = after.location
                   /\ result' = JSONpretty(JSONstringify(data), 0)
                   /\ last' = [op |-> "parse", reply |-> r, threw |-> threw]
    /\ UNCHANGED <<pc, flightplan, idx, inflight, requests, responses, ret, panel,
                   badge, border, weightsText, hidden, rejection, sevIn, sevOut,
                   variant, tgLoggedIn, tgStatus, tgRemaining, files, goBtn>>

\* A redirect scheduled by the submit handler comes due.
Redirect ==
    /\ location = "entry"
    /\ timers > 0
    /\ timers' = timers - 1
    /\ \E blocked \in BOOLEAN :
          IF blocked
          THEN /\ result' = <<"Redirect failed: ">> \o <<"SecurityError">>
               /\ goBtn' = TRUE
               /\ UNCHANGED location
          ELSE /\ location' = "result"
               /\ UNCHANGED <<result, goBtn>>
    /\ last' = [op |-> "timer", reply |-> NoReply, threw |-> FALSE]
    /\ UNCHANGED <<runVars, sevIn, sevOut, variant, tgLoggedIn, tgStatus, tgRemaining,
                   files, disabled, payloadText, rawText, parsing, posted>>

\* The operator clicks the button shown after a failed redirect.
GoClick ==
    /\ location = "entry"
    /\ goBtn
    /\ location' = "result"
    /\ last' = [op |-> "go", reply |-> NoReply, threw |-> FALSE]
    /\ UNCHANGED <<runVars, sevIn, sevOut, variant, tgLoggedIn, tgStatus, tgRemaining,
                   files, disabled, payloadText, rawText, result, parsing, timers, goBtn, posted>>

\* The end of both click handlers: store JSON.stringify(json) and navigate.
storeAndGo(p, json, full) ==
    LET text == JSONtext(JSONstringify(json))
    IN  IF full /\ Str(text) # p.storage
        THEN [p EXCEPT !.result = <<"Failed to navigate to analysis page: ">> \o <<"The quota has been exceeded.">>, !.threw = TRUE]
        ELSE [p EXCEPT !.storage = Str(text), !.location = "result"]

\* The click handler on the payload textarea (lines 1-18), from page state p.
clickTextarea(p, full) ==
    LET parsed == JSONparse(payloadText)
    IN  IF ~parsed.ok THEN [p EXCEPT !.result = <<"Invalid JSON: ">> \o parsed.message]
        ELSE storeAndGo(p, parsed.value, full)

\* The click handler that prefers the stored payload, from page state p.
clickStored(p, full) ==
    IF Truthy(p.storage)
    THEN LET parsed == JSONparse(p.storage.s)
         IN  IF ~parsed.ok THEN [p EXCEPT !.result = <<"Stored payload corrupted: ">> \o parsed.message]
             ELSE storeAndGo(p, parsed.value, full)
    ELSE LET parsed == JSONparse(payloadText)
         IN  IF ~parsed.ok THEN [p EXCEPT !.result = <<"Invalid JSON: ">> \o parsed.message]
             ELSE storeAndGo(p, parsed.value, full)

\* The operator clicks Analyze: the earlier variant runs its two handlers in
\* the order they were added, the current variant its one.
AnalyzeClick ==
    /\ location = "entry"
    /\ ~disabled
    /\ \E full \in BOOLEAN :
          LET p == [storage |-> storage, result |-> result, location |-> location,
                    threw |-> FALSE]
              q == IF variant = "earlier"
                   THEN clickStored(clickTextarea(p, full), full)
                   ELSE clickStored(p, full)
          IN  /\ storage' = q.storage
              /\ result' = q.result
              /\ location' = q.location
              /\ last' = [op |-> "click", reply |-> NoReply, threw |-> q.threw]
    /\ UNCHANGED <<pc, flightplan, idx, inflight, requests, responses, ret, panel,
                   badge, border, weightsText, hidden, rejection, sevIn, sevOut,
                   variant, tgLoggedIn, tgStatus, tgRemaining, files, disabled,
                   payloadText, rawText, parsing, timers, goBtn, posted>>

\* Answers of /api/telegram_status/: a failure, or JSON data.
tgReplies ==
    { Undefined, Null,
      Obj(<<<<"logged_in">>>>, <<Bool(FALSE)>>),
      Obj(<<<<"logged_in">>, <<"remaining_quota">>>>, <<Bool(TRUE), Num(3)>>) }

\* A call of refreshTelegramStatus, made when the page loads and after a
\* sign-in, from its request to its end: the call writes nothing before its
\* await, and a failed request and data that is null leave the page as it is.
RefreshSettles ==
    /\ location = "entry"
    /\ variant = "current"
    /\ \E data \in tgReplies :
          IF data.t \in {"undefined", "null"}
          THEN UNCHANGED <<tgLoggedIn, tgStatus, tgRemaining, disabled>>
          ELSE IF Truthy(Get(data, <<"logged_in">>))
          THEN /\ tgStatus' = <<"Signed in as ">>
                                 \o JsString(OrElse(Get(data, <<"telegram_username">>),
                                                    Str(<<"Telegram user">>)))
                                 \o <<". Remaining quota: ">>
                                 \o JsString(Get(data, <<"remaining_quota">>))
               /\ tgRemaining' = JsString(Get(data, <<"remaining_quota">>))
               /\ tgLoggedIn' = "1"
               /\ disabled' = updateAnalyzeEnabled("1", storage, files)
          ELSE /\ tgStatus' = <<"Sign in with Telegram to parse flight plans. Remaining quota: -">>
               /\ tgRemaining' = <<"-">>
               /\ tgLoggedIn' = "0"
               /\ disabled' = updateAnalyzeEnabled("0", storage, files)
    /\ last' = [op |-> "refresh", reply |-> NoReply, threw |-> FALSE]
    /\ UNCHANGED <<runVars, sevIn, sevOut, variant, location, files, payloadText,
                   rawText, result, parsing, timers, goBtn, posted>>

\* The browser leaves the entry page for the results page: the entry page's
\* document is discarded.
Unload ==
    /\ location = "result"
    /\ last.op # "none"
    /\ tgLoggedIn' = "unset"
    /\ tgStatus' = <<>>
    /\ tgRemaining' = <<>>
    /\ files' = 0
    /\ disabled' = TRUE
    /\ payloadText' = <<>>
    /\ rawText' = <<>>
    /\ result' = <<>>
    /\ parsing' = 0
    /\ timers' = 0
    /\ goBtn' = FALSE
    /\ posted' = <<>>
    /\ last' = [op |-> "none", reply |-> NoReply, threw |-> FALSE]
    /\ UNCHANGED <<runVars, sevIn, sevOut, variant, location>>

\* The results page is loaded after the entry page has been left.
Arrive ==
    /\ location = "result"
    /\ last.op = "none"
    /\ Load

\* Every request of the results page is answered with the plain
\* classification.
SettlePlain ==
    /\ inflight # <<>>
    /\ CallSettles(baseline(inflight[1]))

NextEntry ==
    \/ EditPayload
    \/ SubmitForm
    \/ FileChange
    \/ ParseSettles
    \/ Redirect
    \/ GoClick
    \/ AnalyzeClick
    \/ RefreshSettles
    \/ Unload
    \/ Arrive
    \/ SettlePlain
    \/ WeatherBody
    \/ NotamsBody

SpecEntry == InitEntry /\ [][NextEntry]_vars

(***************************************************************************)
(* Properties                                                              *)
(***************************************************************************)
\* The catalog order of the parts of each section.
catalogOrder ==
    [weather |-> <<sDeparture, sDestination, sDestinationAlternate, sEnrouteAlternates>>,
     notams |-> <<sDeparture, sDestination, sEnrouteAlternates, sCompany, sArea>>]

\* callSectionAnalysis has resolved for task t.
settled(t) == ret[t] # <<>>

\* The network outcomes task t's requests met.
outcomesOf(t) == {responses[i].outcome : i \in {j \in 1..Len(responses) : responses[j].task = t}}

\* Outcome o is a failed call: a transport failure, a status outside 2xx, or
\* a body that is not JSON.
isFailure(o) == o.net = "reject" \/ o.status < 200 \/ o.status > 299 \/ ~o.json

\* Position of task t in the run, and the position the handler is at.
ord(t) == IF t[1] = "weather" THEN t[2] ELSE Len(catalogOrder.weather) + t[2]
cur ==
    CASE pc \in {"weather_call", "weather_body"} -> idx
      [] pc \in {"notams_call", "notams_body"} -> Len(catalogOrder.weather) + idx
      [] pc = "done" -> Cardinality(Tasks) + 1
      [] OTHER -> 0

\* The iteration of task t has run to its end.
recorded(t) == ord(t) < cur

\* What task t's panel and badge show when they are filled from response res
\* alone.
partOf(t, res) ==
    IF t[1] = "weather" THEN weatherPart(Entry(t), res) ELSE notamPart(Entry(t), res)
panelOf(t, res) ==
    [title |-> escapeHtml(Str(Entry(t).title)), body |-> partOf(t, res).html]
badgeOf(t, res) == sRiskBadge \o overallRisk(partOf(t, res).severity)

\* The panel and the badge of the i-th part of a section, by catalog order.
slotPanel(sec, i) ==
    panel[(IF sec = "weather" THEN <<"panel-weather-">> ELSE <<"panel-notams-">>)
              \o catalogOrder[sec][i]]
slotBadge(sec, i) ==
    badge[(IF sec = "weather" THEN <<"badge-weather-">> ELSE <<"badge-notams-">>)
              \o catalogOrder[sec][i]]

\* C1: partial-failure isolation.  Whatever subset of the calls fails, the run
\* is not aborted, every task of a finished run has been dispatched and has
\* settled, and the panel and badge of every task whose iteration has run
\* show that task's own response exactly as they would in a run without
\* failures; the parts of tasks not yet run are untouched.
C1_PartialFailureIsolation ==
    /\ requests # <<>> => rejection = <<>>
    /\ pc = "done" => \A t \in Tasks : settled(t) /\ outcomesOf(t) # {}
    /\ \A t \in Tasks :
          IF recorded(t)
          THEN /\ settled(t)
               /\ slotPanel(t[1], t[2]) = panelOf(t, ret[t][1])
               /\ slotBadge(t[1], t[2]) = badgeOf(t, ret[t][1])
          ELSE /\ slotPanel(t[1], t[2]) = Template
               /\ slotBadge(t[1], t[2]) = <<>>

\* The run is over; the company notam call failed in transport and shows its
\* error, every other call succeeded and shows a low risk.
C1_Witness ==
    /\ pc = "done"
    /\ \A o \in outcomesOf(Task("notams", 4)) : o.net = "reject"
    /\ slotPanel("notams", 4).body =
          <<[tag |-> "error", text |-> <<"Failed to fetch">>]>>
    /\ \A t \in Tasks \ {Task("notams", 4)} :
          /\ \A o \in outcomesOf(t) : ~isFailure(o)
          /\ slotBadge(t[1], t[2]) = sRiskBadge \o sLow

named(r) == <<Get(r, sSection).s, Get(Get(r, sData), sAnalyzePart).s>>

\* The nine catalog entries, as <<section, part>>.
catalogPairs ==
    {<<sWeather, catalogOrder.weather[i]>> : i \in 1..Len(catalogOrder.weather)}
        \cup {<<sNotams, catalogOrder.notams[i]>> : i \in 1..Len(catalogOrder.notams)}

\* C4: exactly-once dispatch.  Every request sent names a catalog entry, no
\* entry is named by two requests, and when the run is over each of the nine
\* entries has been named by one, whatever the flightplan and whichever
\* requests failed.
C4_ExactlyOnceDispatch ==
    /\ \A i \in 1..Len(requests) : named(requests[i]) \in catalogPairs
    /\ \A i, j \in 1..Len(requests) : named(requests[i]) = named(requests[j]) => i = j
    /\ pc = "done" => {named(requests[i]) : i \in 1..Len(requests)} = catalogPairs
    /\ Len(responses) <= Len(requests)

\* The run is over: nine requests were sent although the first one failed.
C4_Witness ==
    /\ pc = "done"
    /\ Len(requests) = 9
    /\ isFailure(responses[1].outcome)

\* v is an error value {error: message} with a non-empty message.
isErrorValue(v) ==
    /\ v.t = "object"
    /\ v.keys = <<sError>>
    /\ v.vals[1].t = "string"
    /\ v.vals[1].s # <<>>

\* C3: the classification call never raises.  For every outcome a request
\* has met, callSectionAnalysis has resolved with a value and the handler was
\* not rejected; for a transport failure, a status outside 2xx and a body
\* that is not JSON the value is {error: message}, else it is the JSON value
\* of the body.
C3_CallNeverRaises ==
    /\ rejection = <<>>
    /\ \A i \in 1..Len(responses) :
          LET t == responses[i].task
              o == responses[i].outcome
          IN  /\ settled(t)
              /\ isFailure(o) => isErrorValue(ret[t][1])
              /\ ~isFailure(o) => ret[t][1] = o.value

\* A request was answered 404 with a JSON body, one by a body that is not
\* JSON, or fetch was rejected, and the call resolved with the error value.
C3_Witness ==
    \E i \in 1..Len(responses) :
        /\ responses[i].outcome.status = 404
        /\ responses[i].outcome.json
        /\ ret[responses[i].task] =
              <<Obj(<<sError>>, <<Str(<<"HTTP ", "4", "0", "4">>)>>)>>

\* The staged payload is text that is not JSON.
invalidPayload == Truthy(storage) /\ ~JSONparse(storage.s).ok

\* C5: when the staged payload is not valid JSON, the handler sends no
\* request, changes no panel and no badge, and shows the operator an error.
C5_InvalidPayloadAborts ==
    (pc # "start" /\ invalidPayload) =>
        /\ requests = <<>>
        /\ \A p \in PanelIds : panel[p] = Template
        /\ \A b \in BadgeIds : badge[b] = <<>>
        /\ weightsText # <<>>

\* The response carries an error property that holds a message (a string).
hasError(res) ==
    /\ res.t = "object"
    /\ \E i \in 1..Len(res.keys) : res.keys[i] = sError /\ res.vals[i].t = "string"

\* The part of task t shows one error outcome carrying the error of its
\* response, with severity Unknown.
showsError(t) ==
    /\ slotPanel(t[1], t[2]).body =
          <<[tag |-> "error", text |-> escapeHtml(Get(ret[t][1], sError))]>>
    /\ slotBadge(t[1], t[2]) = sRiskBadge \o sUnknown

\* C6: every task whose response carries an error property shows its part
\* as a single error outcome carrying the message, with severity Unknown,
\* whatever else the response carries.
C6_ErrorResponsePart ==
    \A t \in Tasks : (recorded(t) /\ hasError(ret[t][1])) => showsError(t)

\* The state of task t: Dispatched while its request is in flight, else
\* Failed or Succeeded once its call has settled, else Pending.
status(t) ==
    IF inflight = <<t>> THEN "Dispatched"
    ELSE IF settled(t)
    THEN (IF \E o \in outcomesOf(t) : isFailure(o) THEN "Failed" ELSE "Succeeded")
    ELSE "Pending"

\* C7: a task only ever moves Pending -> Dispatched -> Succeeded | Failed: a
\* step leaves its state alone, dispatches it from Pending by sending its
\* request, or settles it from Dispatched; it is not dispatched again and it
\* never leaves Succeeded or Failed.
C7_TaskStateMachine ==
    [][\A t \in Tasks :
          \/ status(t)' = status(t)
          \/ /\ status(t) = "Pending"
             /\ status(t)' = "Dispatched"
             /\ Len(requests') = Len(requests) + 1
             /\ named(requests'[Len(requests')]) = <<SectionOf(t), Entry(t).part>>
          \/ /\ status(t) = "Dispatched"
             /\ status(t)' \in {"Succeeded", "Failed"}]_vars

\* One task has succeeded, one has failed, one is dispatched and one pending.
C7_Witness ==
    \E a, b, c, d \in Tasks :
        /\ status(a) = "Succeeded"
        /\ status(b) = "Failed"
        /\ status(c) = "Dispatched"
        /\ status(d) = "Pending"

\* C8: once a run has sent its first request, it reaches a state in which
\* all nine tasks have settled.
C8_RunTerminates == (requests # <<>>) ~> (\A t \in Tasks : settled(t))

\* All nine tasks have settled, nine requests were sent and none is in flight.
C8_Witness ==
    /\ \A t \in Tasks : settled(t)
    /\ Len(requests) = 9
    /\ inflight = <<>>

\* The severities of the leaves task t's panel shows.
leafSeverities(t) ==
    LET body == slotPanel(t[1], t[2]).body
    IN  {severityValue(Str(body[i].risk)) :
            i \in {j \in 1..Len(body) : body[j].tag = "leaf"}}

\* The largest element of a set of severities, 0 for the empty set.
setMax(S) == IF S = {} THEN 0 ELSE CHOOSE m \in S : \A x \in S : x <= m

\* C10: the overall severity of a part, shown by its badge, is the maximum
\* of the severities of the leaves the part shows and Unknown when it shows
\* none; being the maximum of a set, it does not depend on the order of the
\* leaves.
C10_PartSeverityIsMax ==
    \A t \in Tasks :
        recorded(t) =>
            slotBadge(t[1], t[2]) = sRiskBadge \o overallRisk(setMax(leafSeverities(t)))

\* A part shows three leaves, the first HIGH and the last low, and its badge
\* is high.
C10_Witness ==
    \E t \in Tasks :
        /\ recorded(t)
        /\ Len(slotPanel(t[1], t[2]).body) = 3
        /\ slotPanel(t[1], t[2]).body[1].risk = <<"H", "I", "G", "H">>
        /\ slotPanel(t[1], t[2]).body[3].risk = sLow
        /\ slotBadge(t[1], t[2]) = sRiskBadge \o sHigh

\* The severity the badge of task t's part shows.
shownSeverity(t) ==
    LET b == slotBadge(t[1], t[2])
    IN  CASE b = sRiskBadge \o sHigh -> 3
          [] b = sRiskBadge \o sModerate -> 2
          [] b = sRiskBadge \o sLow -> 1
          [] OTHER -> 0

\* The overall severity of a section: the maximum over its parts.
sectionSeverity(sec) ==
    setMax({shownSeverity(Task(sec, i)) : i \in 1..Len(catalogOrder[sec])})

\* The i-th part of section sec is present: its panel carries the title of
\* the i-th catalog entry and some outcome.
partPresent(sec, i) ==
    /\ slotPanel(sec, i).title = escapeHtml(Str(Entry(Task(sec, i)).title))
    /\ slotPanel(sec, i).body # <<>>

\* C11: the end-to-end scenarios.  (A) When all four weather tasks returned
\* {risk_level: "low"}, the weather section's overall severity, the maximum
\* over its parts, is 1 and its four parts are present in catalog order.
\* (B) When notams.area returned {error: "HTTP 500"} and the other four
\* notams tasks {risk_level: "moderate"}, the notams section's overall
\* severity is 2 and the area part shows the error.
C11_ScenarioSeverities ==
    /\ (pc = "done" /\ \A i \in 1..4 : ret[Task("weather", i)] = <<leaf(sLow)>>) =>
           /\ sectionSeverity("weather") = 1
           /\ \A i \in 1..4 : partPresent("weather", i)
    /\ (/\ pc = "done"
        /\ ret[Task("notams", 5)] =
              <<Obj(<<sError>>, <<Str(<<"HTTP ", "5", "0", "0">>)>>)>>
        /\ \A i \in 1..4 : ret[Task("notams", i)] = <<leaf(sModerate)>>) =>
           /\ sectionSeverity("notams") = 2
           /\ slotPanel("notams", 5).body =
                 <<[tag |-> "error", text |-> <<"HTTP ", "5", "0", "0">>]>>

\* C12: legacy compatibility.  When a task's response has no by_part and no
\* error and is a bare leaf (it has a risk_level), the task's part shows
\* exactly one leaf, with the risk_level and the flags of the response, and
\* the part's severity is that of the risk_level.
C12_LegacyLeafIsOnePart ==
    \A t \in Tasks :
        LET res == ret[t][1]
            body == slotPanel(t[1], t[2]).body
        IN  (/\ recorded(t)
             /\ res.t = "object"
             /\ Get(res, sByPart) = Undefined
             /\ Get(res, sError) = Undefined
             /\ Get(res, sRiskLevel).t = "string") =>
                /\ Len(body) = 1
                /\ body[1].tag = "leaf"
                /\ body[1].risk = escapeHtml(Get(res, sRiskLevel))
                /\ Get(res, sFlags).t = "array" =>
                      body[1].flags =
                          [i \in 1..Len(Get(res, sFlags).items) |->
                              escapeHtml(Get(res, sFlags).items[i])]
                /\ shownSeverity(t) = severityValue(Get(res, sRiskLevel))

\* The border classes of the i-th part of a section, by catalog order.
slotBorder(sec, i) ==
    border[(IF sec = "weather" THEN <<"panel-weather-">> ELSE <<"panel-notams-">>)
               \o catalogOrder[sec][i]]

\* The part of the report task t contributes when its request met outcome
\* o: a function of t and o alone.
reportPart(t, o) ==
    LET res == callSectionAnalysis(o).value
    IN  [panel |-> panelOf(t, res),
         badge |-> badgeOf(t, res),
         border |-> {sRiskClass \o overallRisk(partOf(t, res).severity)}]

\* C13: determinism.  At every point of a run the report is a function of
\* the outcomes the tasks have met so far and of nothing else: the part of
\* every task whose iteration has run is the function reportPart of that
\* task and its own outcome, in its own catalog position, and the other
\* parts are as the page loaded them; so two runs that meet the same
\* outcomes show the same report, and nothing carried over from one task
\* influences another.
C13_Determinism ==
    \A t \in Tasks :
        IF recorded(t)
        THEN \E i \in 1..Len(responses) :
                /\ responses[i].task = t
                /\ slotPanel(t[1], t[2]) = reportPart(t, responses[i].outcome).panel
                /\ slotBadge(t[1], t[2]) = reportPart(t, responses[i].outcome).badge
                /\ slotBorder(t[1], t[2]) = reportPart(t, responses[i].outcome).border
        ELSE /\ slotPanel(t[1], t[2]) = Template
             /\ slotBadge(t[1], t[2]) = <<>>
             /\ slotBorder(t[1], t[2]) = {}

\* A finished run in which a weather part with a low risk is followed by a
\* part whose call failed, and a failed notams call by a part with a low
\* risk: each shows its own outcome.
C13_Witness ==
    /\ pc = "done"
    /\ shownSeverity(Task("weather", 1)) = 1
    /\ slotPanel("weather", 2).body[1].tag = "error"
    /\ shownSeverity(Task("weather", 2)) = 0
    /\ slotPanel("notams", 1).body[1].tag = "error"
    /\ shownSeverity(Task("notams", 2)) = 1

\* Value v is an object with a field named k.
hasField(v, k) == v.t = "object" /\ \E i \in 1..Len(v.keys) : v.keys[i] = k

\* The response of task t takes the by_part branch: it carries no truthy
\* error and by_part is an object.
partitioned(t) ==
    /\ recorded(t)
    /\ ~Truthy(Get(ret[t][1], sError))
    /\ Get(ret[t][1], sByPart).t = "object"

\* by_part[part] of task t's response.
candidate(t) == Get(Get(ret[t][1], sByPart), Entry(t).part)

\* The leaves task t's panel shows, in order.
leafNodes(t) ==
    SelectSeq(slotPanel(t[1], t[2]).body, LAMBDA n : n.tag = "leaf")

\* C14: single-leaf disambiguation.  Whenever by_part[part] has a risk_level
\* field of its own, whatever its value and whatever other keys there are,
\* the part shows exactly one leaf, which stands for the whole part (it has
\* no entity heading): the keys are not iterated as entities.
C14_OwnRiskLevelIsOneLeaf ==
    \A t \in Tasks :
        (partitioned(t) /\ hasField(candidate(t), sRiskLevel)) =>
            /\ Len(leafNodes(t)) = 1
            /\ leafNodes(t)[1].heading = <<>>

\* The risk a leaf made of value v shows: its risk_level, 'unknown' when it
\* has none.
riskShown(v) ==
    IF Truthy(Get(v, sRiskLevel)) THEN Get(v, sRiskLevel) ELSE Str(sUnknown)

\* C15: entity-map disambiguation.  Whenever by_part[part] is a non-empty
\* object without a risk_level field, the part shows one leaf per (key,
\* value) pair, in order, headed by the key and with the risk of the value,
\* for any key names, and the part's severity is the maximum over those
\* leaves.
C15_EntityMapLeaves ==
    \A t \in Tasks :
        LET c == candidate(t)
        IN  (/\ partitioned(t)
             /\ c.t = "object"
             /\ Len(c.keys) > 0
             /\ ~hasField(c, sRiskLevel)) =>
                /\ Len(leafNodes(t)) = Len(c.keys)
                /\ \A i \in 1..Len(c.keys) :
                      /\ leafNodes(t)[i].heading = <<escapeHtml(Str(c.keys[i]))>>
                      /\ leafNodes(t)[i].risk = escapeHtml(riskShown(c.vals[i]))
                /\ shownSeverity(t) =
                      setMax({severityValue(riskShown(c.vals[i])) : i \in 1..Len(c.keys)})

\* A part whose candidate maps two names that are no airport codes to a
\* high and a low leaf shows two leaves under those names and severity 3.
C15_Witness ==
    \E t \in Tasks :
        /\ partitioned(t)
        /\ candidate(t).t = "object"
        /\ candidate(t).keys =
              <<<<"rwy ", "0", "4", "L">>, <<"G", "E", "N", "E", "R", "I", "C">>>>
        /\ Len(leafNodes(t)) = 2
        /\ leafNodes(t)[1].risk = sHigh
        /\ leafNodes(t)[2].risk = sLow
        /\ shownSeverity(t) = 3

\* Value c is no leaf and no entity map: it is missing, null, a scalar, or
\* an empty object or array.
unreadable(c) ==
    \/ c.t \in {"undefined", "null", "string", "number", "boolean"}
    \/ c.t = "object" /\ c.keys = <<>>
    \/ c.t = "array" /\ c.items = <<>>

\* by_part of task t's response has no key for the alias of t's part.
noAlias(t) ==
    ~hasField(Get(ret[t][1], sByPart), replace(Entry(t).part, sAlternates, <<>>))
        \/ replace(Entry(t).part, sAlternates, <<>>) = Entry(t).part

\* C16: when the response has by_part but the candidate for the task's part
\* is missing, an empty object or of an unrecognized type, the part shows
\* no leaf at all ('No observations.') and its severity is 0.
C16_MissingCandidateNoLeaf ==
    \A t \in Tasks :
        (partitioned(t) /\ unreadable(candidate(t)) /\ noAlias(t)) =>
            /\ leafNodes(t) = <<>>
            /\ slotPanel(t[1], t[2]).body = <<[tag |-> "none"]>>
            /\ shownSeverity(t) = 0

\* C16, amended: in that case the part shows exactly one leaf, of risk
\* 'unknown' and without heading, details or flags, and its severity is 0.
C16_MissingCandidateUnknownLeaf ==
    \A t \in Tasks :
        (partitioned(t) /\ unreadable(candidate(t)) /\ noAlias(t)) =>
            /\ leafNodes(t) =
                  <<[tag |-> "leaf", heading |-> <<>>, risk |-> sUnknown,
                     details |-> <<>>, flags |-> <<>>]>>
            /\ shownSeverity(t) = 0

\* The response of a recorded task holds nothing for the part under
\* by_part, or a string, and the part shows one unknown leaf.
C16_Witness ==
    \E t \in Tasks :
        /\ partitioned(t)
        /\ candidate(t) \in {Undefined, Str(<<"n/a">>)}
        /\ Len(leafNodes(t)) = 1
        /\ leafNodes(t)[1].risk = sUnknown

\* s without its suffix suf, s itself when it does not end with suf.
stripSuffix(s, suf) ==
    IF Len(s) >= Len(suf) /\ SubSeq(s, Len(s) - Len(suf) + 1, Len(s)) = suf
    THEN SubSeq(s, 1, Len(s) - Len(suf))
    ELSE s

\* The candidate of task t by the alias rule: by_part[part] when that key
\* is present, otherwise by_part[part without the suffix '_alternates'].
aliasCandidate(t) ==
    LET bp == Get(ret[t][1], sByPart)
    IN  IF hasField(bp, Entry(t).part) THEN Get(bp, Entry(t).part)
        ELSE Get(bp, stripSuffix(Entry(t).part, sAlternates))

\* C17: alias fallback.  For every task of either section the part is made
\* from by_part[part] when that key is present and otherwise from
\* by_part[part without '_alternates']; the fallback is used only when the
\* key of the part is absent.
C17_AliasFallback ==
    \A t \in Tasks :
        partitioned(t) =>
            /\ slotPanel(t[1], t[2]).body =
                  renderPartVal(ret[t][1], aliasCandidate(t)).html
            /\ shownSeverity(t) = renderPartVal(ret[t][1], aliasCandidate(t)).severity

\* Value v is a scalar.
scalar(v) == v.t \in {"string", "number", "boolean"}

\* The response of task t parses but has none of the recognized shapes: it
\* is null or a scalar, an object with neither error nor by_part nor
\* risk_level, or by_part holds for the part (and holds no alias of it) a
\* scalar or an object without risk_level whose members are all scalars.
unrecognized(t) ==
    LET res == ret[t][1]
        c == candidate(t)
    IN  /\ recorded(t)
        /\ \/ res.t = "null" \/ scalar(res)
           \/ /\ res.t = "object"
              /\ ~hasField(res, sError) /\ ~hasField(res, sByPart)
              /\ ~hasField(res, sRiskLevel)
           \/ /\ partitioned(t) /\ noAlias(t)
              /\ \/ scalar(c)
                 \/ /\ c.t = "object" /\ Len(c.keys) > 0
                    /\ ~hasField(c, sRiskLevel)
                    /\ \A i \in 1..Len(c.keys) : scalar(c.vals[i])

\* The handler went on after the iteration of task t: the next request was
\* sent or the run is over, and the handler was not rejected.
wentOn(t) ==
    /\ rejection = <<>>
    /\ pc = "done" \/ Len(requests) > ord(t)

\* The leaves task t should show by the shape of its response: none without
\* by_part, one for a scalar candidate, one per member of an object.
leavesDue(t) ==
    IF ~partitioned(t) THEN 0
    ELSE IF candidate(t).t = "object" THEN Len(candidate(t).keys)
    ELSE 1

\* C18: graceful degradation.  For every response that parses but has none
\* of the recognized shapes the task's part is made without an error being
\* raised, has at most one leaf, all of whose leaves are of Unknown
\* severity, and the run goes on with the next task.
C18_UnrecognizedAtMostOneLeaf ==
    \A t \in Tasks :
        unrecognized(t) =>
            /\ wentOn(t)
            /\ Len(leafNodes(t)) <= 1
            /\ \A i \in 1..Len(leafNodes(t)) : leafNodes(t)[i].risk = sUnknown
            /\ shownSeverity(t) = 0

\* C18, amended: for every such response the part is made without an error
\* being raised and has only leaves of Unknown risk: none when the response
\* has no by_part, one when the value for the part is a scalar, one per
\* member when it is an object whose members are no leaves; the part's
\* severity is 0 and the run goes on with the next task.
C18_UnrecognizedOnlyUnknownLeaves ==
    \A t \in Tasks :
        unrecognized(t) =>
            /\ wentOn(t)
            /\ Len(leafNodes(t)) = leavesDue(t)
            /\ \A i \in 1..Len(leafNodes(t)) : leafNodes(t)[i].risk = sUnknown
            /\ shownSeverity(t) = 0

\* A run is over in which one response held, for its part, an object of two
\* members that are no leaves: the part shows two unknown leaves.
C18_Witness ==
    /\ pc = "done"
    /\ \E t \in Tasks :
          /\ unrecognized(t)
          /\ partitioned(t)
          /\ candidate(t).t = "object"
          /\ Len(leafNodes(t)) = 2

\* v is word k spelled in some letter case.
spells(v, k) == v.t = "string" /\ v.s \in caseVariants(k)

\* C9: severityValue is total and case-insensitive: its result is in 0..3; it
\* is 1 for 'low', 2 for 'moderate', 'medium' and 'amber', 3 for 'high' and
\* 'red', in any letter case, and 0 for every other argument, the empty
\* string and a missing value included.
C9_SeverityValueTotal ==
    sevOut # <<>> =>
        /\ sevOut[1] \in 0..3
        /\ spells(sevIn, sLow) => sevOut[1] = 1
        /\ (\E k \in {sModerate, sMedium, sAmber} : spells(sevIn, k)) => sevOut[1] = 2
        /\ (\E k \in {sHigh, sRed} : spells(sevIn, k)) => sevOut[1] = 3
        /\ (\A k \in keywords : ~spells(sevIn, k)) => sevOut[1] = 0

\* severityValue("Amber") has returned 2.
C9_Witness ==
    /\ sevIn = Str(<<"A", "m", "b", "e", "r">>)
    /\ sevOut = <<2>>

\* The severity a risk_level stands for: 1, 2 or 3 for the severity words in
\* any letter case, 0 for everything else, a missing one included.
level(v) ==
    LET says(k) == v.t = "string" /\ Len(v.s) = Len(k) /\ spells(v, k)
    IN  IF says(sLow) THEN 1
        ELSE IF \E k \in {sModerate, sMedium, sAmber} : says(k) THEN 2
        ELSE IF \E k \in {sHigh, sRed} : says(k) THEN 3
        ELSE 0

\* The values the leaves of task t's part are made of, in order: the members
\* of the value the loop reads for the part when that is an entity map, else
\* that value itself.
leafSources(t) ==
    LET pv == IF t[1] = "weather" THEN weatherPartVal(Entry(t), ret[t][1])
              ELSE notamPartVal(Entry(t), ret[t][1])
    IN  IF Truthy(pv) /\ isObjectType(pv) /\ Len(entries(pv)) # 0
              /\ ~Truthy(Get(pv, sRiskLevel))
        THEN [i \in 1..Len(entries(pv)) |-> entries(pv)[i][2]]
        ELSE <<pv>>

\* C19: severity range.  In every reachable state the overall severity of
\* every part made so far, as its badge and its border show it, is one of
\* unknown, low, moderate and high, and every leaf's severity is in 0..3: a
\* leaf made of a value with no risk_level shows the risk 'unknown' and
\* counts 0, a leaf whose risk_level is no severity word counts 0, and a
\* leaf made of a value whose flags are missing or no array has no flags
\* (an array of flags is kept in order).
C19_SeverityRange ==
    \A t \in Tasks :
        recorded(t) =>
            /\ slotBadge(t[1], t[2]) \in
                  {sRiskBadge \o r : r \in {sUnknown, sLow, sModerate, sHigh}}
            /\ slotBorder(t[1], t[2]) \in {{c} : c \in riskClasses}
            /\ shownSeverity(t) \in 0..3
            /\ partitioned(t) =>
                  LET src == leafSources(t)
                      shown == leafNodes(t)
                  IN  /\ Len(shown) = Len(src)
                      /\ \A i \in 1..Len(src) :
                            LET r == Get(src[i], sRiskLevel)
                                f == Get(src[i], sFlags)
                                l == level(r)
                            IN  /\ l \in 0..3
                                /\ severityValue(Str(shown[i].risk)) = l
                                /\ shown[i].risk =
                                      IF Truthy(r) THEN escapeHtml(r) ELSE sUnknown
                                /\ shown[i].flags =
                                      IF f.t = "array"
                                      THEN [j \in 1..Len(f.items) |-> escapeHtml(f.items[j])]
                                      ELSE <<>>
                      /\ shownSeverity(t) =
                            setMax({level(Get(src[i], sRiskLevel)) : i \in 1..Len(src)})

\* A part shows two leaves: one made of a value without risk_level whose
\* flags are a string, shown as 'unknown' without flags, and one whose
\* risk_level is 'severe', shown with its one flag; the part's severity is 0.
C19_Witness ==
    \E t \in Tasks :
        /\ partitioned(t)
        /\ candidate(t) = defaultedLeaves
        /\ Len(leafNodes(t)) = 2
        /\ leafNodes(t)[1].risk = sUnknown
        /\ leafNodes(t)[1].flags = <<>>
        /\ leafNodes(t)[2].risk = <<"s", "e", "v", "e", "r", "e">>
        /\ leafNodes(t)[2].flags = <<<<"ice">>>>
        /\ shownSeverity(t) = 0
        /\ slotBadge(t[1], t[2]) = sRiskBadge \o sUnknown

\* The flightplan the staged payload holds: the flightplan member of the
\* wrapper, the payload itself when staged bare.
stagedFlightplan ==
    IF storage = Str(tWrapper) THEN Obj(<<sDeparture>>, <<Str(<<"KJFK">>)>>)
    ELSE Obj(<<sDeparture>>, <<Str(<<"EGLL">>)>>)

\* The text of {section, data: {flightplan, analyze_part, focus}} for task t
\* and flightplan fp.
requestOf(t, fp) ==
    JSONstringify(
        Obj(<<sSection, sData>>,
            <<Str(IF t[1] = "weather" THEN sWeather ELSE sNotams),
              Obj(<<sFlightplan, sAnalyzePart, sFocus>>,
                  <<fp, Str(Entry(t).part), Str(Entry(t).focus)>>)>>))

\* C20: every request of a run has the form {section, data: {flightplan,
\* analyze_part, focus}} with the section of its task, the part and the
\* focus of the task's catalog entry and the flightplan extracted from the
\* staged payload, the same for all requests; a finished run has sent nine,
\* one per task, and from the first request on the flightplan the handler
\* holds is that same value: no iteration changes it.
C20_RequestForm ==
    /\ \A i \in 1..Len(requests) :
          \E t \in Tasks : ord(t) = i /\ requests[i] = requestOf(t, stagedFlightplan)
    /\ pc = "done" => Len(requests) = Cardinality(Tasks)
    /\ requests # <<>> =>
          /\ storage \in {Str(tWrapper), Str(tBare)}
          /\ flightplan = stagedFlightplan

\* A run on a staged wrapper is over; its nine requests carry the inner
\* flightplan, the last one with the part and the focus of the area NOTAMs.
C20_Witness ==
    /\ pc = "done"
    /\ storage = Str(tWrapper)
    /\ Len(requests) = 9
    /\ flightplan = Obj(<<sDeparture>>, <<Str(<<"KJFK">>)>>)
    /\ requests[1] = requestOf(Task("weather", 1), flightplan)
    /\ requests[9] = requestOf(Task("notams", 5), flightplan)
    /\ requests[9] # requests[1]

\* The output slot of task t: the panel, the badge and the border of its part.
slot(t) == <<slotPanel(t[1], t[2]), slotBadge(t[1], t[2]), slotBorder(t[1], t[2])>>

\* C21: exclusive write-once slots.  A step changes the slot of a task only
\* when it records that task's outcome, which it does once: the slot of every
\* other task, recorded before or not yet, is left as it is; and in a
\* finished run every slot has been written.
C21_ExclusiveWriteOnce ==
    /\ [][\A t \in Tasks :
             /\ slot(t)' # slot(t) => ~recorded(t) /\ recorded(t)'
             /\ (~recorded(t) /\ recorded(t)') => slot(t)' # slot(t)]_vars
    /\ [](pc = "done" =>
             \A t \in Tasks :
                 /\ slotPanel(t[1], t[2]).title = escapeHtml(Str(Entry(t).title))
                 /\ slotBadge(t[1], t[2]) # <<>>
                 /\ Cardinality(slotBorder(t[1], t[2])) = 1)

\* A finished run: every one of the nine parts carries its own title, and
\* the second weather part shows an error while the first still shows low.
C21_Witness ==
    /\ pc = "done"
    /\ \A t \in Tasks : slotPanel(t[1], t[2]).title = escapeHtml(Str(Entry(t).title))
    /\ slotBadge("weather", 1) = sRiskBadge \o sLow
    /\ slotPanel("weather", 2).body[1].tag = "error"

\* The raw assistant texts task t's panel shows.
rawNodes(t) ==
    SelectSeq(slotPanel(t[1], t[2]).body, LAMBDA n : n.tag = "raw")

\* C22: whenever the response of a task carries raw_llm_response_text, in
\* the by_part shape or in the bare legacy shape (a risk_level of its own
\* and no by_part), the task's part carries that text.
C22_RawTextAttached ==
    \A t \in Tasks :
        LET res == ret[t][1]
        IN  (/\ recorded(t)
             /\ res.t = "object"
             /\ ~hasField(res, sError)
             /\ hasField(res, sByPart) \/ hasField(res, sRiskLevel)
             /\ Truthy(Get(res, sRawText))) =>
                rawNodes(t) = <<[tag |-> "raw", text |-> escapeHtml(Get(res, sRawText))]>>

\* C28: sequential dispatch.  At most one classification request is
\* outstanding at any time; a step that sends the request of a catalog entry
\* finds every earlier request answered and the task of the entry before it
\* settled, and leaves that task's part recorded; and no notams request is
\* sent before all four weather tasks have settled.
C28_SequentialDispatch ==
    /\ [](/\ Len(requests) - Len(responses) \in {0, 1}
          /\ Len(inflight) <= 1
          /\ Len(requests) > Len(catalogOrder.weather) =>
                \A i \in 1..Len(catalogOrder.weather) : settled(Task("weather", i)))
    /\ [][Len(requests') # Len(requests) =>
             /\ Len(requests') = Len(requests) + 1
             /\ Len(responses) = Len(requests)
             /\ \A t \in Tasks :
                   ord(t) = Len(requests) =>
                       /\ settled(t)
                       /\ recorded(t)'
                       /\ slot(t)' # <<Template, <<>>, {}>>]_vars

\* The first notams request is outstanding: five requests were sent, four
\* were answered, and the four weather parts are recorded.
C28_Witness ==
    /\ Len(requests) = 5
    /\ Len(responses) = 4
    /\ inflight = <<Task("notams", 1)>>
    /\ \A i \in 1..4 : settled(Task("weather", i)) /\ recorded(Task("weather", i))

\* C24: on the current entry page the Analyze button is enabled only while
\* the Telegram logged-in flag is set and a staged payload or a selected file
\* exists, whatever refreshes, selections, parses and clicks came before.
C24_LoginGating ==
    (variant = "current" /\ location = "entry" /\ ~disabled) =>
        /\ tgLoggedIn = "1"
        /\ Truthy(storage) \/ files > 0

\* C30: selecting a file while the Telegram logged-in flag is not set
\* submits no parse request, leaves the staged payload as it is and leaves
\* the Analyze button disabled; selecting a file while the flag is set
\* submits the parse form exactly once.
C30_FileSelection ==
    [][(location = "entry" /\ last'.op = "change" /\ files' > 0) =>
           IF tgLoggedIn # "1"
           THEN parsing' = parsing /\ storage' = storage /\ disabled'
           ELSE parsing' = parsing + 1]_vars

\* C25: a click on Analyze while a staged payload exists and is valid JSON
\* leaves the staged slot holding the same value and navigates to the
\* results page, whatever the textarea holds; a click while the value to use
\* (the staged payload, or the textarea if nothing is staged) is not valid
\* JSON reports an error, does not write the staged slot and does not
\* navigate.
C25_StagedPrecedence ==
    [][(location = "entry" /\ last'.op = "click" /\ ~last'.threw) =>
           LET used == IF Truthy(storage) THEN storage.s ELSE payloadText
           IN  /\ (Truthy(storage) /\ JSONparse(storage.s).ok) =>
                      /\ Truthy(storage')
                      /\ JSONparse(storage'.s) = JSONparse(storage.s)
                      /\ location' = "result"
               /\ ~JSONparse(used).ok =>
                      /\ result' \in {<<"Stored payload corrupted: ">> \o JSONparse(used).message,
                                      <<"Invalid JSON: ">> \o JSONparse(used).message}
                      /\ storage' = storage
                      /\ location' = "entry"]_vars

\* C26: in the PDF parse flow a redirect to the results page is scheduled
\* only by a parse step whose write of the staged slot succeeded, and the
\* slot then holds the wrapper made from the parsed reply; when the write
\* throws, no redirect is scheduled, the slot keeps its value and the
\* fallback form carrying the same wrapper is submitted.
C26_StoreBeforeNavigate ==
    [][location = "entry" =>
           LET data == last'.reply.value
               flightplanOfWrapper ==
                   IF Get(data, sFlightplan).t \in {"object", "array"}
                   THEN Get(data, sFlightplan)
                   ELSE data
               text == JSONtext(Obj(<<sFlightplan, sObservations>>,
                                    <<flightplanOfWrapper, Arr(<<>>)>>))
           IN  /\ timers' > timers =>
                      /\ last'.op = "parse"
                      /\ ~last'.threw
                      /\ timers' = timers + 1
                      /\ storage' = Str(text)
               /\ (last'.op = "parse" /\ last'.threw) =>
                      /\ timers' = timers
                      /\ storage' = storage
                      /\ posted' = Append(posted, text)
                      /\ location' = "submit_analysis"]_vars

\* C26: a parse step whose write threw while an older payload was staged has
\* submitted the fallback form.
C26_Witness ==
    /\ last.op = "parse"
    /\ last.threw
    /\ Truthy(storage)
    /\ posted # <<>>
    /\ location = "submit_analysis"
    /\ timers = 0

\* The content types of the modelled replies that do not name JSON.
C27_NonJsonTypes ==
    { Null, Str(<<"t", "e", "x", "t", "/", "h", "t", "m", "l">>),
      Str(<<"t", "e", "x", "t", "/", "p", "l", "a", "i", "n">>) }

C23_Wrapper(fp) == Obj(<<sFlightplan, sObservations>>, <<fp, Arr(<<>>)>>)

\* C23: a parse step that stages a reply {flightplan: {...}} stages the
\* wrapper whose flightplan is that inner object, and one that stages a bare
\* flightplan object stages the wrapper whose flightplan is the object
\* itself; on the results page the flightplan of the run and of every
\* request is payload.flightplan when the staged payload has one, and the
\* payload itself otherwise.
C23_EitherShape ==
    /\ [][(/\ location = "entry"
           /\ last'.op = "parse"
           /\ storage' # storage
           /\ last'.reply.value.t = "object") =>
              LET data == last'.reply.value
                  inner == Get(data, sFlightplan)
                  written == JSONparse(storage'.s)
              IN  /\ written.ok
                  /\ written.value =
                        IF inner.t \in {"object", "array"}
                        THEN C23_Wrapper(inner)
                        ELSE C23_Wrapper(data)]_vars
    /\ [](pc \in {"weather_call", "weather_body", "notams_call", "notams_body", "done"} =>
             LET payload == JSONparse(storage.s).value
                 expected == IF Truthy(Get(payload, sFlightplan))
                             THEN Get(payload, sFlightplan)
                             ELSE payload
             IN  /\ flightplan = expected
                 /\ \A i \in 1..Len(requests) :
                       Get(Get(requests[i], sData), sFlightplan) = expected)

\* C23: the run on the results page has finished on the flightplan that the
\* entry page staged from a reply that was a bare flightplan object.
C23_Witness ==
    /\ pc = "done"
    /\ location = "result"
    /\ flightplan = Obj(<<sDeparture>>, <<Str(<<"EGLL">>)>>)
    /\ storage = Str(JSONtext(C23_Wrapper(flightplan)))
    /\ Len(requests) = Cardinality(Tasks)

\* C29: once the results page has loaded with the staged payload slot empty
\* (nothing stored, or the empty text), the handler has returned: no
\* classification request was sent, every part panel, badge and border is as
\* the page came, and #weightsResult shows the 'No payload found' message.
C29_NoPayloadNoRun ==
    (~Truthy(storage) /\ pc # "start") =>
        /\ pc = "returned"
        /\ requests = <<>>
        /\ inflight = <<>>
        /\ responses = <<>>
        /\ panel = [p \in PanelIds |-> Template]
        /\ badge = [b \in BadgeIds |-> <<>>]
        /\ border = [p \in PanelIds |-> {}]
        /\ weightsText = sNoPayload
        /\ weightsText[1] = "No payload found. Please go back and provide a payload."

\* C29: the results page has loaded with nothing in the staged payload slot.
C29_Witness ==
    /\ storage = Null
    /\ pc = "returned"
    /\ weightsText = sNoPayload

\* The partVal the per-part flow has read for task t.
partValOf(t) ==
    IF t[1] = "weather" THEN weatherPartVal(Entry(t), ret[t][1])
    ELSE notamPartVal(Entry(t), ret[t][1])

\* C31: flow equivalence.  For every value a part has under by_part, the
\* leaves the per-part flow shows for it (one leaf, or one headed leaf per
\* entity) and the severity it gives the part are the leaves and the
\* severity the single-payload flow makes of the same value.
C31_FlowEquivalence ==
    \A t \in Tasks :
        partitioned(t) =>
            /\ leafNodes(t) = resultPartVal(partValOf(t)).html
            /\ shownSeverity(t) = resultPartVal(partValOf(t)).severity

====
